---------------------------- MODULE Spec2Model ----------------------------
(***************************************************************************)
(* Webhook receiver: the ingestion handler (modular handler of             *)
(* src/src/handlers/webhook.handler.js and the monolithic handler kept as  *)
(* index-monolithic-backup.js) and the dead-letter processor               *)
(* (src/dlq-processor.js).                                                 *)
(*                                                                         *)
(* Spec     the ingestion handler, one invocation at a time, with the      *)
(*          process-wide state (configInstance, services, mongoUri) kept   *)
(*          across invocations of the same execution environment.          *)
(* SpecDLQ  the dead-letter handler looping over one batch per invocation. *)
(* SpecRace the modular ingestion handler invoked again while earlier       *)
(*          invocations are suspended on the secret fetch.                  *)
(* SpecConfig the configuration singleton (src/src/config/index.js) under   *)
(*          calls of getConfig and resetConfig and changes of the           *)
(*          environment.                                                    *)
(* SpecUnit the pure functions of the event normalizer and of the header    *)
(*          utilities, each applied to one input drawn from a bounded set.  *)
(* SpecRedelivery one event going round between the fan-out topic, a        *)
(*          failing subscriber, the dead-letter queue and retryDelivery.    *)
(* SpecCache an SSMService instance called directly: getParameter for       *)
(*          several cache keys and getCacheStats, while time passes.        *)
(***************************************************************************)
EXTENDS Integers, Sequences, FiniteSets, TLC

VARIABLES
    \* ---- ingestion handler: process environment (fixed per process)
    impl,            \* which entry point is deployed: "modular" | "monolithic"
    envMongoParam,   \* process.env.MONGODB_URI_PARAMETER is set
    envSnsTopic,     \* process.env.SNS_TOPIC_ARN is set
    \* ---- ingestion handler: module-level state, kept across invocations
    configInstance,  \* config/index.js: let configInstance = null
    services,        \* webhook.handler.js: let services = null
    mongoUri,        \* let mongoUri = null (both handlers)
    ssmCache,        \* SSMService.cache: the entry of the connection parameter
    now,             \* Date.now(), in minutes since module load
    \* ---- ingestion handler: the invocation in progress
    pc,              \* position of the handler
    req,             \* the inbound request
    normalized,      \* extractEventData has built the Event
    secretFetches,   \* GetParameter calls issued for this request
    storeState,      \* store branch: "none" | "running" | "success" | "failed"
    snsState,        \* publish branch: "none" | "running" | "success" | "failed"
    snsSends,        \* PublishCommand sends issued for this request
    response,        \* what the handler returned (NoResponse while running)
    requestsDone,    \* invocations completed in this execution environment
    settleOrder,     \* the branches of this request in the order they settled
    fetchFailed,     \* the latest GetParameter call of this environment failed
    \* ---- dead-letter handler: process environment (fixed per process)
    envDlqUrl,       \* process.env.DLQ_URL is set
    envCriticalTopic,\* process.env.CRITICAL_FAILURE_TOPIC_ARN is set
    \* ---- dead-letter handler: the invocation in progress
    dpc,             \* position of the handler
    batchSize,       \* event.Records.length
    idx,             \* 1-based index of the record being processed (0 before the loop)
    rec,             \* the record being processed
    analysis,        \* analyzeFailure's result for rec
    retryBranch,     \* processDLQMessage entered the retry branch for rec
    republished,     \* PublishCommands sent by retryDelivery for rec
    notified,        \* PublishCommands sent by sendCriticalFailureNotification for rec
    metricsSent,     \* PutMetricData params sent by sendMetrics for rec
    metricsOutcome,  \* how that call ended: "none" | "pending" | "ok" | "failed"
    archived,        \* storeFailureDetails ran for rec
    results,         \* the handler's results array
    attempted,       \* indices for which processDLQMessage was called
    threw,           \* indices for which processDLQMessage threw
    deleteIssued,    \* indices for which DeleteMessage was sent
    dlqResponse,     \* what the dead-letter handler returned
    \* ---- ingestion handler, overlapping invocations
    racers,          \* per invocation: position, value received, value used
    continuations,   \* invocations whose `mongoUri = <value>` continuation is queued
    servicesCreated, \* services objects constructed by initializeServices
    returned,        \* values the parameter store has returned
    \* ---- configuration singleton
    configSnapshot,  \* the environment the installed Config captured when constructed
    configSerial,    \* Config objects constructed so far; the last one's identity
    configCalls,     \* getConfig calls made
    configFailures,  \* getConfig calls that threw
    configResult,    \* how the last getConfig call ended
    \* ---- pure functions applied to one input
    unitFn,          \* the function under application
    unitInput,       \* its argument(s)
    unitApplied,     \* times the function was applied (the second time to its own result)
    unitOutput,      \* what it returned
    \* ---- one event between the fan-out topic and the dead-letter queue
    dlqEntry,        \* the event's entry in the dead-letter queue, if any
    copyInFlight,    \* a republished copy is on its way to the subscriber
    redeliveries,    \* republishes of the event by retryDelivery so far
    \* ---- an SSMService instance called directly
    cache,           \* this.cache: cache key -> { value, timestamp }
    clock,           \* Date.now(), in minutes
    call,            \* the getParameter call in progress or just finished
    callsDone,       \* getParameter calls finished
    stats            \* what getCacheStats returned last

webhookVars == <<impl, envMongoParam, envSnsTopic, configInstance, services,
                 mongoUri, ssmCache, now, pc, req, normalized, secretFetches,
                 storeState, snsState, snsSends, response, requestsDone, settleOrder, fetchFailed>>

dlqVars == <<envDlqUrl, envCriticalTopic, dpc, batchSize, idx, rec, analysis,
             retryBranch, republished, notified, metricsSent, metricsOutcome, archived,
             results, attempted, threw, deleteIssued, dlqResponse>>

raceVars == <<racers, continuations, servicesCreated, returned>>

configVars == <<configSnapshot, configSerial, configCalls, configFailures, configResult>>

unitVars == <<unitFn, unitInput, unitApplied, unitOutput>>

redeliveryVars == <<dlqEntry, copyInFlight, redeliveries>>

cacheVars == <<cache, clock, call, callsDone, stats>>

vars == <<webhookVars, dlqVars, raceVars, configVars, unitVars, redeliveryVars,
          cacheVars>>

-----------------------------------------------------------------------------
(* Bounds *)

\* invocations served by one execution environment
MaxRequests == 2

\* dead-letter entries per batch
MaxBatch == 2

\* minutes of wall-clock time followed
MaxClock == 6

\* overlapping invocations of the ingestion handler
NumRacers == 2

\* getConfig calls followed
MaxConfigCalls == 4

\* characters of a request path drawn in full
MaxPathLen == 3

\* entries of a header map
MaxHeaders == 2

\* largest maxSize passed to createHeadersAttribute, besides its default
MaxSizeLimit == 45

-----------------------------------------------------------------------------
(* Ingestion handler: constants of the code *)

Null == "null"

\* config.webhook.allowedMethods, and the literal of the 405 responses
AllowedMethods == <<"POST", "PUT", "PATCH", "DELETE">>

AllowHeader == "POST, PUT, PATCH, DELETE"

\* requestContext.httpMethod of the requests drawn; Null is an absent method
Methods == {"POST", "PUT", "PATCH", "DELETE", "GET", "HEAD", "OPTIONS", Null}

\* values the parameter store holds over time (the secret may be rotated)
SecretValues == {"mongodb://a", "mongodb://b"}

\* SSMService.cacheTTL = 5 * 60 * 1000 ms, in minutes
CacheTTL == 5

\* no entry under the parameter's cache key
NoCache == [value |-> Null, timestamp |-> 0 - 1]

\* getParameter's cache test: cache.has(cacheKey) and
\* Date.now() - cached.timestamp < cacheTTL
CacheFresh == ssmCache # NoCache /\ now - ssmCache.timestamp < CacheTTL

NoResponse == [statusCode |-> 0]

\* the handler's promise rejected: an exception escaped it
Thrown == [statusCode |-> -1, error |-> "Missing required configuration: MONGODB_URI_PARAMETER"]

MsgBoth == "Webhook received, logged, stored, and published successfully"

MsgStoreOnly == "Webhook received, logged, and stored successfully. SNS publishing failed."

MsgPublishOnly == "Webhook received, logged, and published successfully. MongoDB storage failed."

MsgNone == "Webhook received and logged successfully. Both MongoDB storage and SNS publishing failed."

SeqToSet(s) == {s[i] : i \in 1..Len(s)}

\* Config._validate: AWS_REGION has a default, so only MONGODB_URI_PARAMETER can be missing
ConfigValid == envMongoParam

\* validateMethod / Array.prototype.includes on config.webhook.allowedMethods
validateMethod(method) == method \in SeqToSet(AllowedMethods)

\* the 405 response of the handler's method gate
MethodNotAllowed(error) ==
    [statusCode |-> 405, message |-> "Method Not Allowed", error |-> error,
     Allow |-> AllowHeader, allowed_methods |-> AllowedMethods]

\* the 500 response of the catch around the handler's body
ErrorResponse(error) ==
    [statusCode |-> 500, message |-> "Error processing webhook", error |-> error]

-----------------------------------------------------------------------------
(* Ingestion handler: response composition *)

\* results[0]?.value?.success ?? false, over the outcome allSettled reports
\* for the store branch ("rejected": no value; "none": no such element)
mongoSuccessOf(mongoResult) == mongoResult = "success"

\* mutant of snsSuccessOf: the publish outcome is not read
snsSuccessIgnored(snsResult) == TRUE

\* mutant of snsSuccessOf: a missing publish result counts as a failure
snsSuccessDefaultFalse(snsResult) == snsResult = "success"

\* results[1]?.value?.success ?? true
snsSuccessOf(snsResult) ==
    IF snsResult \in {"success", "failed"} THEN snsResult = "success" ELSE TRUE

\* mutant of ComposeResponse: a request whose two branches failed is answered 502
ComposeResponseFailing(mongoResult, snsResult) ==
    IF mongoResult = "failed" /\ snsResult = "failed"
    THEN [statusCode |-> 502, message |-> MsgNone,
          operations_status |-> [mongodb |-> "failed", sns |-> "failed"]]
    ELSE [statusCode |-> 200,
          message |-> IF mongoResult = "success" /\ snsResult # "failed" THEN MsgBoth
                      ELSE IF mongoResult = "success" THEN MsgStoreOnly
                      ELSE MsgPublishOnly,
          operations_status |->
              [mongodb |-> IF mongoResult = "success" THEN "success" ELSE "failed",
               sns |-> IF snsResult # "failed" THEN "success" ELSE "failed"]]

\* the if / else-if chain that builds message and operations_status
ComposeResponse(mongoResult, snsResult) ==
    LET mongoSuccess == mongoSuccessOf(mongoResult)
        snsSuccess == snsSuccessOf(snsResult)
    IN  [statusCode |-> 200,
         message |-> IF mongoSuccess /\ snsSuccess THEN MsgBoth
                     ELSE IF mongoSuccess /\ ~snsSuccess THEN MsgStoreOnly
                     ELSE IF ~mongoSuccess /\ snsSuccess THEN MsgPublishOnly
                     ELSE MsgNone,
         operations_status |->
             [mongodb |-> IF mongoSuccess THEN "success" ELSE "failed",
              sns |-> IF snsSuccess THEN "success" ELSE "failed"]]

\* a branch promise has settled
Settled(state) == state \in {"success", "failed"}

\* mutant of AllSettled: fail-fast, the join ends as soon as one branch has failed
AllSettledFailFast ==
    \/ storeState = "failed"
    \/ snsState = "failed"
    \/ Settled(storeState) /\ (snsState = "none" \/ Settled(snsState))

\* Promise.allSettled(operations) resolves: every promise pushed has settled
AllSettled == Settled(storeState) /\ (snsState = "none" \/ Settled(snsState))

-----------------------------------------------------------------------------
(* Ingestion handler: the steps of one invocation *)

\* the front door delivers a request to an idle execution environment
Receive(method, ddTrace) ==
    /\ pc = "idle"
    /\ requestsDone < MaxRequests
    /\ req' = [method |-> method, ddTrace |-> ddTrace]
    /\ pc' = "handler"
    /\ UNCHANGED <<impl, envMongoParam, envSnsTopic, ssmCache, now,
                   configInstance, services,
                   mongoUri, normalized, secretFetches, storeState, snsState,
                   snsSends, response, requestsDone, settleOrder, fetchFailed>>

\* getConfig(): constructs the singleton on first use; the constructor throws
\* when validation fails and then nothing is installed
getConfigThrows == configInstance = Null /\ ~ConfigValid

\* modular handler(): the GET check, then validateMethod (which calls getConfig
\* outside any try), then processWebhook
ModularGate ==
    IF req.method = "GET"
    THEN /\ response' = MethodNotAllowed("GET requests are not supported by this webhook endpoint")
         /\ pc' = "done"
         /\ UNCHANGED configInstance
    ELSE IF getConfigThrows
    THEN /\ response' = Thrown
         /\ pc' = "done"
         /\ UNCHANGED configInstance
    ELSE /\ configInstance' = "config"
         /\ IF validateMethod(req.method)
            THEN /\ pc' = "processWebhook"
                 /\ UNCHANGED response
            ELSE /\ response' = MethodNotAllowed(<<req.method, "requests are not supported">>)
                 /\ pc' = "done"

\* monolithic handler: only the GET check precedes the try block
MonolithicGate ==
    /\ IF req.method = "GET"
       THEN /\ response' = MethodNotAllowed("GET requests are not supported by this webhook endpoint")
            /\ pc' = "done"
       ELSE /\ pc' = "processWebhook"
            /\ UNCHANGED response
    /\ UNCHANGED configInstance

HandlerGate ==
    /\ pc = "handler"
    /\ IF impl = "modular" THEN ModularGate ELSE MonolithicGate
    /\ UNCHANGED <<impl, envMongoParam, envSnsTopic, ssmCache, now,
                   services, mongoUri, req,
                   normalized, secretFetches, storeState, snsState, snsSends,
                   requestsDone, settleOrder, fetchFailed>>

\* processWebhook up to the secret: initializeServices, extractEventData, then
\* `if (!mongoUri) mongoUri = await ssm.getParameter(...)`.  getParameter of
\* the modular handler's SSMService answers from a fresh cache entry, deletes
\* an expired one, and otherwise sends GetParameter.  The monolithic handler
\* checks MONGODB_URI_PARAMETER here, inside its try, and its SSMService has
\* no cache.
\* mutant of ProcessWebhookStart: a failed fetch is remembered, and the
\* requests after it are answered 500 without asking the secret service
ProcessWebhookStartNoRetry ==
    /\ pc = "processWebhook"
    /\ normalized' = TRUE
    /\ services' = IF impl = "modular" THEN "set" ELSE services
    /\ IF mongoUri # Null
       THEN /\ pc' = "dispatch"
            /\ UNCHANGED <<mongoUri, ssmCache, secretFetches, response>>
       ELSE IF impl = "monolithic" /\ ~envMongoParam
       THEN /\ response' = ErrorResponse("MONGODB_URI_PARAMETER environment variable not set")
            /\ pc' = "done"
            /\ UNCHANGED <<mongoUri, ssmCache, secretFetches>>
       ELSE IF fetchFailed
       THEN /\ response' = ErrorResponse("SSM parameter retrieval failed")
            /\ pc' = "done"
            /\ UNCHANGED <<mongoUri, ssmCache, secretFetches>>
       ELSE IF impl = "modular" /\ CacheFresh
       THEN /\ mongoUri' = ssmCache.value
            /\ pc' = "dispatch"
            /\ UNCHANGED <<ssmCache, secretFetches, response>>
       ELSE /\ ssmCache' = IF impl = "modular" THEN NoCache ELSE ssmCache
            /\ secretFetches' = secretFetches + 1
            /\ pc' = "awaitSecret"
            /\ UNCHANGED <<mongoUri, response>>
    /\ UNCHANGED <<impl, envMongoParam, envSnsTopic, now, configInstance,
                   req, storeState, snsState, snsSends, requestsDone, settleOrder, fetchFailed>>

ProcessWebhookStart ==
    /\ pc = "processWebhook"
    /\ normalized' = TRUE
    /\ services' = IF impl = "modular" THEN "set" ELSE services
    /\ IF mongoUri # Null
       THEN /\ pc' = "dispatch"
            /\ UNCHANGED <<mongoUri, ssmCache, secretFetches, response>>
       ELSE IF impl = "monolithic" /\ ~envMongoParam
       THEN /\ response' = ErrorResponse("MONGODB_URI_PARAMETER environment variable not set")
            /\ pc' = "done"
            /\ UNCHANGED <<mongoUri, ssmCache, secretFetches>>
       ELSE IF impl = "modular" /\ CacheFresh
       THEN /\ mongoUri' = ssmCache.value
            /\ pc' = "dispatch"
            /\ UNCHANGED <<ssmCache, secretFetches, response>>
       ELSE /\ ssmCache' = IF impl = "modular" THEN NoCache ELSE ssmCache
            /\ secretFetches' = secretFetches + 1
            /\ pc' = "awaitSecret"
            /\ UNCHANGED <<mongoUri, response>>
    /\ UNCHANGED <<impl, envMongoParam, envSnsTopic, now, configInstance,
                   req, storeState, snsState, snsSends, requestsDone, settleOrder, fetchFailed>>

\* the GetParameter call returns a value: the modular SSMService caches it
\* with the time of the answer, and the handler keeps it in mongoUri
SecretResolved(value) ==
    /\ pc = "awaitSecret"
    /\ ssmCache' = IF impl = "modular"
                   THEN [value |-> value, timestamp |-> now]
                   ELSE ssmCache
    /\ mongoUri' = value
    /\ fetchFailed' = FALSE
    /\ pc' = "dispatch"
    /\ UNCHANGED <<impl, envMongoParam, envSnsTopic, now, configInstance,
                   services,
                   req, normalized, secretFetches, storeState, snsState,
                   snsSends, response, requestsDone, settleOrder>>

\* mutant of SecretFailed: the failure is logged and processing goes on to
\* the two branches without a connection secret
SecretFailedDispatches ==
    /\ pc = "awaitSecret"
    /\ pc' = "dispatch"
    /\ UNCHANGED <<impl, envMongoParam, envSnsTopic, ssmCache, now,
                   configInstance, services,
                   mongoUri, req, normalized, secretFetches, storeState,
                   snsState, snsSends, response, requestsDone, settleOrder, fetchFailed>>

\* the GetParameter call fails: getParameter rethrows, the handler's catch
\* answers 500 and mongoUri stays unset
SecretFailed ==
    /\ pc = "awaitSecret"
    /\ response' = ErrorResponse("SSM parameter retrieval failed")
    /\ fetchFailed' = TRUE
    /\ pc' = "done"
    /\ UNCHANGED <<impl, envMongoParam, envSnsTopic, ssmCache, now,
                   configInstance, services,
                   mongoUri, req, normalized, secretFetches, storeState,
                   snsState, snsSends, requestsDone, settleOrder>>

\* storeWebhook(databaseName, collectionName, eventData) of the modular handler
\* is a placeholder that logs and returns { success: true }: its promise is
\* already fulfilled when the call returns.  mongoOperation() of the monolithic
\* handler suspends on the connection and the insert.
LaunchStore == IF impl = "modular" THEN "success" ELSE "running"

\* publishWebhookEvent runs up to `await this.snsClient.send(command)`.  The
\* monolithic SNSService reads the undeclared `correlationId` when the request
\* carries no Datadog trace id: a ReferenceError before anything is sent.
PublishSends == IF impl = "monolithic" /\ ~req.ddTrace THEN 0 ELSE 1

\* both operations are pushed, then `await Promise.allSettled(operations)`
Dispatch ==
    /\ pc = "dispatch"
    /\ storeState' = LaunchStore
    /\ IF envSnsTopic
       THEN /\ snsState' = "running"
            /\ snsSends' = PublishSends
       ELSE UNCHANGED <<snsState, snsSends>>
    /\ settleOrder' = IF Settled(LaunchStore) THEN <<"mongodb">> ELSE <<>>
    /\ pc' = "awaitAll"
    /\ UNCHANGED <<impl, envMongoParam, envSnsTopic, ssmCache, now,
                   configInstance, services,
                   mongoUri, req, normalized, secretFetches, response,
                   requestsDone, fetchFailed>>

\* the store branch settles: mongoOperation returns { success } or, from its
\* catch, { success: false }
StoreSettles(outcome) ==
    /\ pc = "awaitAll"
    /\ storeState = "running"
    /\ storeState' = outcome
    /\ settleOrder' = Append(settleOrder, "mongodb")
    /\ UNCHANGED <<impl, envMongoParam, envSnsTopic, ssmCache, now,
                   configInstance, services,
                   mongoUri, pc, req, normalized, secretFetches, snsState,
                   snsSends, response, requestsDone, fetchFailed>>

\* the publish branch settles: .then gives { success: true }, .catch gives
\* { success: false }
PublishSettles(outcome) ==
    /\ pc = "awaitAll"
    /\ snsState = "running"
    /\ snsSends = 0 => outcome = "failed"
    /\ snsState' = outcome
    /\ settleOrder' = Append(settleOrder, "sns")
    /\ UNCHANGED <<impl, envMongoParam, envSnsTopic, ssmCache, now,
                   configInstance, services,
                   mongoUri, pc, req, normalized, secretFetches, storeState,
                   snsSends, response, requestsDone, fetchFailed>>

\* mutant of Compose: the results are taken in the order the branches settled
ComposeInSettleOrder ==
    /\ pc = "awaitAll"
    /\ AllSettled
    /\ LET outcomeOf(branch) == IF branch = "mongodb" THEN storeState ELSE snsState
       IN  response' = ComposeResponse(outcomeOf(settleOrder[1]),
                                       IF Len(settleOrder) > 1
                                       THEN outcomeOf(settleOrder[2]) ELSE "none")
    /\ pc' = "done"
    /\ UNCHANGED <<impl, envMongoParam, envSnsTopic, ssmCache, now,
                   configInstance, services,
                   mongoUri, req, normalized, secretFetches, storeState,
                   snsState, snsSends, requestsDone, settleOrder, fetchFailed>>

\* allSettled resolves and the 200 response is built from results[0], results[1]
Compose ==
    /\ pc = "awaitAll"
    /\ AllSettled
    /\ response' = ComposeResponse(storeState, snsState)
    /\ pc' = "done"
    /\ UNCHANGED <<impl, envMongoParam, envSnsTopic, ssmCache, now,
                   configInstance, services,
                   mongoUri, req, normalized, secretFetches, storeState,
                   snsState, snsSends, requestsDone, settleOrder, fetchFailed>>

\* the invocation is over; the execution environment waits for the next one
Return ==
    /\ pc = "done"
    /\ pc' = "idle"
    /\ requestsDone' = requestsDone + 1
    /\ req' = [method |-> Null, ddTrace |-> FALSE]
    /\ normalized' = FALSE
    /\ secretFetches' = 0
    /\ storeState' = "none"
    /\ snsState' = "none"
    /\ snsSends' = 0
    /\ settleOrder' = <<>>
    /\ response' = NoResponse
    /\ UNCHANGED <<impl, envMongoParam, envSnsTopic, ssmCache, now,
                   configInstance, services, mongoUri, fetchFailed>>

\* a minute passes between two invocations
Tick ==
    /\ pc = "idle"
    /\ now < MaxClock
    /\ now' = now + 1
    /\ UNCHANGED <<impl, envMongoParam, envSnsTopic, ssmCache, configInstance,
                   services, mongoUri, pc, req, normalized, secretFetches,
                   storeState, snsState, snsSends, response, requestsDone, settleOrder, fetchFailed>>

-----------------------------------------------------------------------------
(* Dead-letter handler: strings, as sequences of characters *)

\* String.prototype.includes(sub)
Includes(str, sub) ==
    \E i \in 0..(Len(str) - Len(sub)) : SubSeq(str, i + 1, i + Len(sub)) = sub

StrTimeout == <<"t", "i", "m", "e", "o", "u", "t">>

StrFive == <<"5">>

StrFour == <<"4">>

StrUnknown == <<"U", "n", "k", "n", "o", "w", "n">>

StrPayment == <<"/", "p", "a", "y", "m", "e", "n", "t">>

StrSecurity == <<"/", "s", "e", "c", "u", "r", "i", "t", "y">>

StrCritical == <<"/", "c", "r", "i", "t", "i", "c", "a", "l">>

\* FailureReason attribute values drawn
ReasonLowerTimeout == <<"t", "i", "m", "e", "o", "u", "t">>

ReasonTimeout == <<"T", "i", "m", "e", "o", "u", "t">>

Reason503 == <<"H", "T", "T", "P", " ", "5", "0", "3">>

Reason404 == <<"H", "T", "T", "P", " ", "4", "0", "4">>

Reason504 == <<"H", "T", "T", "P", " ", "5", "0", "4">>

ReasonTimeout504 == <<"t", "i", "m", "e", "o", "u", "t", " ", "5", "0", "4">>

\* an absent attribute (and the empty string, which `||` treats alike)
NoString == <<>>

Reasons ==
    {ReasonLowerTimeout, ReasonTimeout, Reason503, Reason404, Reason504,
     ReasonTimeout504, NoString}

\* paths of the original events drawn
PathPaymentCharge == <<"/", "p", "a", "y", "m", "e", "n", "t", "/", "c", "h", "a", "r", "g", "e">>

PathGeneratives == <<"/", "g", "e", "n", "e", "r", "a", "t", "i", "v", "e", "s">>

PathApiSecurity == <<"/", "a", "p", "i", "/", "s", "e", "c", "u", "r", "i", "t", "y">>

PathCriticalJobs == <<"/", "c", "r", "i", "t", "i", "c", "a", "l", "/", "j", "o", "b", "s">>

Paths == {PathPaymentCharge, PathGeneratives, PathApiSecurity, PathCriticalJobs}

\* "flat": the event carries path at top level; "nested": the message body
\* the ingestion handler publishes, with path under transport
Shapes == {"flat", "nested"}

TopicArn == "arn:aws:sns:events"

\* Protocol attribute values drawn; Null is an absent attribute
Protocols == {"https", Null}

\* Date.now() when the entry is analyzed
NowMs == 200000000

MsPerHour == 3600000

MaxAgeHours == 24

\* the retry branch requires receiveCount < RetryLimit
RetryLimit == 3

\* ApproximateReceiveCount values drawn: 1..MaxReceiveCount
MaxReceiveCount == 3

\* SentTimestamp values drawn: one hour old, exactly 24 hours old, one
\* millisecond more, and an absent attribute
NoTimestamp == 0 - 1

SentTimestamps ==
    {NowMs - MsPerHour, NowMs - MaxAgeHours * MsPerHour,
     NowMs - MaxAgeHours * MsPerHour - 1, NoTimestamp}

\* the SQS records drawn:
\*  - every combination of failure reason, receive count, sent timestamp and
\*    TopicArn attribute, for a critical and a non-critical flat event and for
\*    the nested body (which hides the path from the handler whatever it is);
\*    the Protocol attribute is absent exactly when FailureReason is;
\*  - one record for each of the other two critical markers;
\*  - a record whose body is not JSON, which carries nothing else the handler
\*    reads before it throws.
Records ==
    {r \in [bodyKind : {"event"}, shape : Shapes,
            path : {PathPaymentCharge, PathGeneratives}, reason : Reasons,
            receiveCount : 1..MaxReceiveCount, sentTimestamp : SentTimestamps,
            topicArn : {TopicArn, Null}, protocol : Protocols] :
        /\ r.shape = "nested" => r.path = PathPaymentCharge
        /\ r.protocol = Null <=> r.reason = NoString}
    \cup
    [bodyKind : {"event"}, shape : {"flat"},
     path : {PathApiSecurity, PathCriticalJobs}, reason : {Reason404},
     receiveCount : {1}, sentTimestamp : {NowMs - MsPerHour},
     topicArn : {TopicArn}, protocol : {"https"}]
    \cup
    [bodyKind : {"badJson"}, shape : {"flat"}, path : {PathGeneratives},
     reason : {NoString}, receiveCount : {1}, sentTimestamp : {NoTimestamp},
     topicArn : {Null}, protocol : {Null}]

-----------------------------------------------------------------------------
(* Dead-letter handler: processDLQMessage's pure parts *)

\* the failureInfo object built from the record
FailureInfo(record) ==
    [receiveCount |-> record.receiveCount,
     sentTimestamp |-> record.sentTimestamp,
     originalTopicArn |-> record.topicArn,
     protocol |-> record.protocol,
     failureReason |-> IF record.reason = NoString THEN StrUnknown ELSE record.reason]

\* webhookEvent.path: undefined (NoString) unless the event has path at top level
EventPath(record) == IF record.shape = "flat" THEN record.path ELSE NoString

\* mutant of ClassifyReason: the "4" test precedes the "5" test
ClassifyReasonFourFirst(failureReason) ==
    IF Includes(failureReason, StrTimeout)
    THEN [failureType |-> "timeout", shouldRetry |-> TRUE,
          recommendations |-> <<"Consider increasing timeout for subscriber">>]
    ELSE IF Includes(failureReason, StrFour)
    THEN [failureType |-> "client_error", shouldRetry |-> FALSE,
          recommendations |-> <<"Check subscriber configuration or webhook payload">>]
    ELSE IF Includes(failureReason, StrFive)
    THEN [failureType |-> "server_error", shouldRetry |-> TRUE,
          recommendations |-> <<"Subscriber experiencing server errors">>]
    ELSE [failureType |-> "unknown", shouldRetry |-> FALSE,
          recommendations |-> <<>>]

\* the failure-pattern chain: [failureType, shouldRetry, recommendation]
ClassifyReason(failureReason) ==
    IF Includes(failureReason, StrTimeout)
    THEN [failureType |-> "timeout", shouldRetry |-> TRUE,
          recommendations |-> <<"Consider increasing timeout for subscriber">>]
    ELSE IF Includes(failureReason, StrFive)
    THEN [failureType |-> "server_error", shouldRetry |-> TRUE,
          recommendations |-> <<"Subscriber experiencing server errors">>]
    ELSE IF Includes(failureReason, StrFour)
    THEN [failureType |-> "client_error", shouldRetry |-> FALSE,
          recommendations |-> <<"Check subscriber configuration or webhook payload">>]
    ELSE [failureType |-> "unknown", shouldRetry |-> FALSE,
          recommendations |-> <<>>]

\* mutant of IsCriticalPath: the path is compared for equality with the markers
IsCriticalPathExact(path) == path \in {StrPayment, StrSecurity, StrCritical}

\* webhookEvent.path?.includes("/payment") || ... "/security" || ... "/critical"
IsCriticalPath(path) ==
    /\ path # NoString
    /\ \/ Includes(path, StrPayment)
       \/ Includes(path, StrSecurity)
       \/ Includes(path, StrCritical)

\* mutant of TooOld: an entry of exactly 24 hours is too old as well
TooOldInclusive(sentTimestamp) ==
    /\ sentTimestamp # NoTimestamp
    /\ NowMs - sentTimestamp >= MaxAgeHours * MsPerHour

\* messageAgeHours > 24, with messageAgeMs = Date.now() - parseInt(sentTimestamp);
\* an absent timestamp parses to NaN and NaN > 24 is false
TooOld(sentTimestamp) ==
    /\ sentTimestamp # NoTimestamp
    /\ NowMs - sentTimestamp > MaxAgeHours * MsPerHour

analyzeFailure(failureInfo, path) ==
    LET c == ClassifyReason(failureInfo.failureReason)
        old == TooOld(failureInfo.sentTimestamp)
    IN  [shouldRetry |-> c.shouldRetry /\ ~old,
         isCritical |-> IsCriticalPath(path),
         failureType |-> c.failureType,
         recommendations |->
             IF old THEN Append(c.recommendations, "Message too old for retry")
             ELSE c.recommendations]

\* `analysis.shouldRetry && failureInfo.receiveCount < 3`
ShouldAttemptRetry(a, failureInfo) ==
    a.shouldRetry /\ failureInfo.receiveCount < RetryLimit

\* mutant of ShouldEscalate: every entry that is not retried is escalated
ShouldEscalateAlways(a) == envCriticalTopic

\* `process.env.CRITICAL_FAILURE_TOPIC_ARN && analysis.isCritical`
ShouldEscalate(a) == envCriticalTopic /\ a.isCritical

\* failureInfo.protocol || "unknown"
ProtocolDimension(failureInfo) ==
    IF failureInfo.protocol = Null THEN "unknown" ELSE failureInfo.protocol

\* the MetricData array sendMetrics builds
MetricParams(failureInfo, a) ==
    <<[MetricName |-> "ProcessedMessages",
       Dimensions |-> [Protocol |-> ProtocolDimension(failureInfo),
                       FailureType |-> a.failureType]]>>
    \o (IF a.isCritical
        THEN <<[MetricName |-> "CriticalFailures",
                Dimensions |-> [Protocol |-> ProtocolDimension(failureInfo),
                                FailureType |-> "none"]]>>
        ELSE <<>>)

\* webhookEvent.method: at top level of a flat event, under transport otherwise
EventMethod(record) == IF record.shape = "flat" THEN "POST" ELSE Null

\* webhookEvent.timestamp: at top level in both shapes
EventTimestamp(record) == "2024-01-01T00:00:00.000Z"

\* the PublishCommand sendCriticalFailureNotification builds
CriticalNotification(record, a) ==
    [TopicArn |-> "CRITICAL_FAILURE_TOPIC_ARN",
     Subject |-> <<"Critical Webhook Failure - ", a.failureType>>,
     failure |-> [protocol |-> FailureInfo(record).protocol,
                  reason |-> FailureInfo(record).failureReason,
                  receiveCount |-> FailureInfo(record).receiveCount],
     webhookEvent |-> [path |-> EventPath(record),
                       method |-> EventMethod(record),
                       timestamp |-> EventTimestamp(record)],
     analysis |-> a]

\* the PublishCommand retryDelivery builds
RetryCommand(record) ==
    [TopicArn |-> FailureInfo(record).originalTopicArn,
     RetryAttempt |-> FailureInfo(record).receiveCount,
     retry |-> [attempt |-> FailureInfo(record).receiveCount,
                originalFailure |-> FailureInfo(record).failureReason],
     shape |-> record.shape,
     path |-> record.path]

-----------------------------------------------------------------------------
(* Dead-letter handler: the steps of one invocation *)

\* no record taken yet
NoRecord ==
    [bodyKind |-> "none", shape |-> "flat", path |-> NoString,
     reason |-> NoString, receiveCount |-> 1, sentTimestamp |-> NoTimestamp,
     topicArn |-> Null, protocol |-> Null]

\* no analysis made yet
NoAnalysis ==
    [shouldRetry |-> FALSE, isCritical |-> FALSE, failureType |-> "none",
     recommendations |-> <<>>]

ProcessedResult == [entry |-> idx, status |-> "processed"]

FailedResult == [entry |-> idx, status |-> "failed"]

\* mutant of ProcessingThrew: the delete is sent from the catch as well
ProcessingThrewThenDelete ==
    /\ results' = Append(results, FailedResult)
    /\ threw' = threw \cup {idx}
    /\ deleteIssued' = deleteIssued \cup {idx}
    /\ dpc' = "iterEnd"
    /\ UNCHANGED archived

\* mutant of ProcessingThrew: the exception ends the loop
ProcessingThrewAborts ==
    /\ results' = Append(results, FailedResult)
    /\ threw' = threw \cup {idx}
    /\ dpc' = "returned"
    /\ UNCHANGED <<archived, deleteIssued>>

\* processDLQMessage threw: the handler's catch records a failed result and
\* sends no delete
ProcessingThrew ==
    /\ results' = Append(results, FailedResult)
    /\ threw' = threw \cup {idx}
    /\ dpc' = "iterEnd"
    /\ UNCHANGED <<archived, deleteIssued>>

\* the handler, once processDLQMessage has returned: push the result, then
\* send DeleteMessage when DLQ_URL is set
AfterProcessed ==
    /\ results' = Append(results, ProcessedResult)
    /\ IF envDlqUrl
       THEN /\ deleteIssued' = deleteIssued \cup {idx}
            /\ dpc' = "delete"
       ELSE /\ dpc' = "iterEnd"
            /\ UNCHANGED deleteIssued

\* processDLQMessage's tail: storeFailureDetails, then return "processed"
ProcessingReturned ==
    /\ archived' = TRUE
    /\ AfterProcessed
    /\ UNCHANGED threw

\* the handler is invoked with a batch of n records
StartBatch(n) ==
    /\ dpc = "idle"
    /\ batchSize' = n
    /\ dpc' = "loop"
    /\ UNCHANGED <<envDlqUrl, envCriticalTopic, idx, rec, analysis,
                   retryBranch, republished, notified, metricsSent, metricsOutcome, archived,
                   results, attempted, threw, deleteIssued, dlqResponse>>

\* the loop takes the next record and calls processDLQMessage, which runs up
\* to `await sendMetrics(...)`; JSON.parse(record.body) may throw first
BeginRecord(record) ==
    /\ dpc = "loop"
    /\ idx < batchSize
    /\ idx' = idx + 1
    /\ rec' = record
    /\ attempted' = attempted \cup {idx + 1}
    /\ UNCHANGED <<retryBranch, republished, notified, archived>>
    /\ IF record.bodyKind = "badJson"
       THEN /\ results' = Append(results, [entry |-> idx + 1, status |-> "failed"])
            /\ threw' = threw \cup {idx + 1}
            /\ analysis' = NoAnalysis
            /\ metricsSent' = <<>>
            /\ metricsOutcome' = "none"
            /\ dpc' = "iterEnd"
       ELSE /\ analysis' = analyzeFailure(FailureInfo(record), EventPath(record))
            /\ metricsSent' =
                  <<MetricParams(FailureInfo(record),
                                 analyzeFailure(FailureInfo(record), EventPath(record)))>>
            /\ metricsOutcome' = "pending"
            /\ dpc' = "metrics"
            /\ UNCHANGED <<results, threw>>
    /\ UNCHANGED <<envDlqUrl, envCriticalTopic, batchSize, deleteIssued,
                   dlqResponse>>

\* processDLQMessage after `await sendMetrics(...)`: the retry / notification
\* decision, run up to its first await (or to the return when nothing is awaited)
Decide ==
    IF ShouldAttemptRetry(analysis, FailureInfo(rec))
    THEN /\ retryBranch' = TRUE
         /\ UNCHANGED notified
         /\ IF FailureInfo(rec).originalTopicArn # Null
            THEN /\ republished' = Append(republished, RetryCommand(rec))
                 /\ dpc' = "retry"
                 /\ UNCHANGED <<archived, results, threw, deleteIssued>>
            ELSE /\ UNCHANGED republished
                 /\ ProcessingReturned
    ELSE /\ UNCHANGED <<retryBranch, republished>>
         /\ IF ShouldEscalate(analysis)
            THEN /\ notified' = Append(notified, CriticalNotification(rec, analysis))
                 /\ dpc' = "notify"
                 /\ UNCHANGED <<archived, results, threw, deleteIssued>>
            ELSE /\ UNCHANGED notified
                 /\ ProcessingReturned

\* mutant of MetricsSettles: a failed PutMetricData propagates out of sendMetrics
MetricsSettlesRethrows(ok) ==
    /\ dpc = "metrics"
    /\ metricsOutcome' = IF ok THEN "ok" ELSE "failed"
    /\ IF ok
       THEN Decide
       ELSE /\ ProcessingThrew
            /\ UNCHANGED <<retryBranch, republished, notified>>
    /\ UNCHANGED <<envDlqUrl, envCriticalTopic, batchSize, idx, rec, analysis,
                   metricsSent, attempted, dlqResponse>>

\* sendMetrics settles (its catch swallows a failed PutMetricData), then the
\* retry / notification decision runs
MetricsSettles(ok) ==
    /\ dpc = "metrics"
    /\ metricsOutcome' = IF ok THEN "ok" ELSE "failed"
    /\ Decide
    /\ UNCHANGED <<envDlqUrl, envCriticalTopic, batchSize, idx, rec, analysis,
                   metricsSent, attempted, dlqResponse>>

\* the republish of retryDelivery settles; a failure propagates out of
\* processDLQMessage
RetrySettles(ok) ==
    /\ dpc = "retry"
    /\ IF ok THEN ProcessingReturned ELSE ProcessingThrew
    /\ UNCHANGED <<envDlqUrl, envCriticalTopic, batchSize, idx, rec, analysis,
                   retryBranch, republished, notified, metricsSent, metricsOutcome, attempted,
                   dlqResponse>>

\* the publish of sendCriticalFailureNotification settles; a failure
\* propagates out of processDLQMessage
NotifySettles(ok) ==
    /\ dpc = "notify"
    /\ IF ok THEN ProcessingReturned ELSE ProcessingThrew
    /\ UNCHANGED <<envDlqUrl, envCriticalTopic, batchSize, idx, rec, analysis,
                   retryBranch, republished, notified, metricsSent, metricsOutcome, attempted,
                   dlqResponse>>

\* DeleteMessage settles; a failure lands in the same catch as a processing
\* failure and pushes a second, failed, result
DeleteSettles(ok) ==
    /\ dpc = "delete"
    /\ dpc' = "iterEnd"
    /\ results' = IF ok THEN results ELSE Append(results, FailedResult)
    /\ UNCHANGED <<envDlqUrl, envCriticalTopic, batchSize, idx, rec, analysis,
                   retryBranch, republished, notified, metricsSent, metricsOutcome, archived,
                   attempted, threw, deleteIssued, dlqResponse>>

\* the loop body is over for this record: its locals go out of scope and the
\* loop tests for a next record
NextIteration ==
    /\ dpc = "iterEnd"
    /\ dpc' = "loop"
    /\ rec' = NoRecord
    /\ analysis' = NoAnalysis
    /\ retryBranch' = FALSE
    /\ republished' = <<>>
    /\ notified' = <<>>
    /\ metricsSent' = <<>>
    /\ metricsOutcome' = "none"
    /\ archived' = FALSE
    /\ UNCHANGED <<envDlqUrl, envCriticalTopic, batchSize, idx, results,
                   attempted, threw, deleteIssued, dlqResponse>>

CountStatus(rs, status) == Cardinality({i \in 1..Len(rs) : rs[i].status = status})

\* the summary the handler returns
Summary(rs) ==
    [processed |-> CountStatus(rs, "processed"),
     failed |-> CountStatus(rs, "failed"),
     total |-> Len(rs)]

\* the loop is over: the handler returns the summary
FinishBatch ==
    /\ dpc = "loop"
    /\ idx = batchSize
    /\ dlqResponse' = [statusCode |-> 200, summary |-> Summary(results)]
    /\ dpc' = "returned"
    /\ UNCHANGED <<envDlqUrl, envCriticalTopic, batchSize, idx, rec, analysis,
                   retryBranch, republished, notified, metricsSent, metricsOutcome, archived,
                   results, attempted, threw, deleteIssued>>

\* the invocation is over; the execution environment waits for the next batch
ReturnDLQ ==
    /\ dpc = "returned"
    /\ dpc' = "idle"
    /\ batchSize' = 0
    /\ idx' = 0
    /\ rec' = NoRecord
    /\ analysis' = NoAnalysis
    /\ retryBranch' = FALSE
    /\ republished' = <<>>
    /\ notified' = <<>>
    /\ metricsSent' = <<>>
    /\ metricsOutcome' = "none"
    /\ archived' = FALSE
    /\ results' = <<>>
    /\ attempted' = {}
    /\ threw' = {}
    /\ deleteIssued' = {}
    /\ dlqResponse' = NoResponse
    /\ UNCHANGED <<envDlqUrl, envCriticalTopic>>

\* module load of the ingestion handler, no invocation yet
WebhookIdle ==
    /\ configInstance = Null
    /\ services = Null
    /\ mongoUri = Null
    /\ ssmCache = NoCache
    /\ now = 0
    /\ pc = "idle"
    /\ req = [method |-> Null, ddTrace |-> FALSE]
    /\ normalized = FALSE
    /\ secretFetches = 0
    /\ storeState = "none"
    /\ snsState = "none"
    /\ snsSends = 0
    /\ response = NoResponse
    /\ requestsDone = 0
    /\ settleOrder = <<>>
    /\ fetchFailed = FALSE

\* parameter names drawn, and `${parameterName}:${withDecryption}`
ParameterNames == {<<"p">>, <<"q">>}

CacheKey(parameterName, withDecryption) ==
    parameterName \o <<":">> \o (IF withDecryption THEN <<"t", "r", "u", "e">>
                                  ELSE <<"f", "a", "l", "s", "e">>)

CacheKeys == {CacheKey(n, d) : n \in ParameterNames, d \in BOOLEAN}

\* no getParameter call yet
NoCall ==
    [ state |-> "none", key |-> <<>>, useCache |-> TRUE, before |-> <<>>,
      startedAt |-> 0 - 1, sends |-> 0, value |-> Null, settledAt |-> 0 - 1 ]

NoStats == [totalEntries |-> 0, expiredEntries |-> 0, validEntries |-> 0]

\* a new SSMService: this.cache = new Map()
CacheIdle ==
    /\ cache = [k \in CacheKeys |-> NoCache]
    /\ clock = 0
    /\ call = NoCall
    /\ callsDone = 0
    /\ stats = NoStats

\* the event has no entry in the dead-letter queue
NoEntry == [present |-> FALSE, record |-> NoRecord]

\* no event is followed between the topic and the dead-letter queue
RedeliveryIdle ==
    /\ dlqEntry = NoEntry
    /\ copyInFlight = FALSE
    /\ redeliveries = 0

\* module load of the dead-letter handler, no invocation yet
DLQIdle ==
    /\ dpc = "idle"
    /\ batchSize = 0
    /\ idx = 0
    /\ rec = NoRecord
    /\ analysis = NoAnalysis
    /\ retryBranch = FALSE
    /\ republished = <<>>
    /\ notified = <<>>
    /\ metricsSent = <<>>
    /\ metricsOutcome = "none"
    /\ archived = FALSE
    /\ results = <<>>
    /\ attempted = {}
    /\ threw = {}
    /\ deleteIssued = {}
    /\ dlqResponse = NoResponse

\* no overlapping invocation yet
RaceIdle ==
    /\ racers = [r \in 1..NumRacers |-> [pc |-> "start", got |-> Null, used |-> Null]]
    /\ continuations = <<>>
    /\ servicesCreated = 0
    /\ returned = {}

\* no Config object was constructed: the installed instance captured nothing
NoSnapshot == [mongodbUriParameter |-> FALSE, snsTopicArn |-> FALSE]

\* getConfig was not called yet
NoConfigResult == [outcome |-> "none", instance |-> 0, message |-> "", keys |-> <<>>]

\* module load of config/index.js, getConfig not called yet
ConfigIdle ==
    /\ configSnapshot = NoSnapshot
    /\ configSerial = 0
    /\ configCalls = 0
    /\ configFailures = 0
    /\ configResult = NoConfigResult

\* no pure function under application
UnitIdle ==
    /\ unitFn = "none"
    /\ unitInput = <<>>
    /\ unitApplied = 0
    /\ unitOutput = <<>>

Init ==
    /\ impl \in {"modular", "monolithic"}
    /\ envMongoParam \in BOOLEAN
    /\ envSnsTopic \in BOOLEAN
    /\ WebhookIdle
    /\ envDlqUrl = TRUE
    /\ envCriticalTopic = TRUE
    /\ DLQIdle
    /\ RaceIdle
    /\ ConfigIdle
    /\ RedeliveryIdle
    /\ CacheIdle
    /\ UnitIdle

Next ==
    \/ \E method \in Methods, ddTrace \in BOOLEAN :
           Receive(method, ddTrace) /\ UNCHANGED <<dlqVars, raceVars, configVars, unitVars, redeliveryVars, cacheVars>>
    \/ HandlerGate /\ UNCHANGED <<dlqVars, raceVars, configVars, unitVars, redeliveryVars, cacheVars>>
    \/ ProcessWebhookStart /\ UNCHANGED <<dlqVars, raceVars, configVars, unitVars, redeliveryVars, cacheVars>>
    \/ \E value \in SecretValues : SecretResolved(value)
           /\ UNCHANGED <<dlqVars, raceVars, configVars, unitVars, redeliveryVars, cacheVars>>
    \/ SecretFailed /\ UNCHANGED <<dlqVars, raceVars, configVars, unitVars, redeliveryVars, cacheVars>>
    \/ Dispatch /\ UNCHANGED <<dlqVars, raceVars, configVars, unitVars, redeliveryVars, cacheVars>>
    \/ \E outcome \in {"success", "failed"} :
           StoreSettles(outcome) /\ UNCHANGED <<dlqVars, raceVars, configVars, unitVars, redeliveryVars, cacheVars>>
    \/ \E outcome \in {"success", "failed"} :
           PublishSettles(outcome) /\ UNCHANGED <<dlqVars, raceVars, configVars, unitVars, redeliveryVars, cacheVars>>
    \/ Compose /\ UNCHANGED <<dlqVars, raceVars, configVars, unitVars, redeliveryVars, cacheVars>>
    \/ Return /\ UNCHANGED <<dlqVars, raceVars, configVars, unitVars, redeliveryVars, cacheVars>>
    \/ Tick /\ UNCHANGED <<dlqVars, raceVars, configVars, unitVars, redeliveryVars, cacheVars>>

Spec == Init /\ [][Next]_vars

InitDLQ ==
    /\ impl = "modular"
    /\ envMongoParam = TRUE
    /\ envSnsTopic = TRUE
    /\ WebhookIdle
    /\ envDlqUrl \in BOOLEAN
    /\ envCriticalTopic \in BOOLEAN
    /\ DLQIdle
    /\ RaceIdle
    /\ ConfigIdle
    /\ RedeliveryIdle
    /\ CacheIdle
    /\ UnitIdle

NextDLQ ==
    \/ \E n \in 0..MaxBatch : StartBatch(n)
           /\ UNCHANGED <<webhookVars, raceVars, configVars, unitVars, redeliveryVars, cacheVars>>
    \/ \E record \in Records : BeginRecord(record)
           /\ UNCHANGED <<webhookVars, raceVars, configVars, unitVars, redeliveryVars, cacheVars>>
    \/ \E ok \in BOOLEAN : MetricsSettles(ok)
           /\ UNCHANGED <<webhookVars, raceVars, configVars, unitVars, redeliveryVars, cacheVars>>
    \/ \E ok \in BOOLEAN : RetrySettles(ok)
           /\ UNCHANGED <<webhookVars, raceVars, configVars, unitVars, redeliveryVars, cacheVars>>
    \/ \E ok \in BOOLEAN : NotifySettles(ok)
           /\ UNCHANGED <<webhookVars, raceVars, configVars, unitVars, redeliveryVars, cacheVars>>
    \/ \E ok \in BOOLEAN : DeleteSettles(ok)
           /\ UNCHANGED <<webhookVars, raceVars, configVars, unitVars, redeliveryVars, cacheVars>>
    \/ NextIteration /\ UNCHANGED <<webhookVars, raceVars, configVars, unitVars, redeliveryVars, cacheVars>>
    \/ FinishBatch /\ UNCHANGED <<webhookVars, raceVars, configVars, unitVars, redeliveryVars, cacheVars>>
    \/ ReturnDLQ /\ UNCHANGED <<webhookVars, raceVars, configVars, unitVars, redeliveryVars, cacheVars>>

SpecDLQ == InitDLQ /\ [][NextDLQ]_vars

-----------------------------------------------------------------------------
(* One event between the fan-out topic and the dead-letter queue.  The      *)
(* dead-letter handler is invoked with the event's entry; retryDelivery      *)
(* republishes to the original topic; the subscriber fails again or not; a   *)
(* failed copy is a new entry, received for the first time and just sent.    *)

\* republishes after which the subscriber is no longer assumed to fail
MaxRedeliveries == 4

\* the queue invokes the handler with the event's entry
ReceiveEntry ==
    /\ dlqEntry.present
    /\ StartBatch(1)
    /\ UNCHANGED redeliveryVars

\* the loop takes the entry
TakeEntry ==
    /\ BeginRecord(dlqEntry.record)
    /\ UNCHANGED redeliveryVars

\* `await snsClient.send(command)` of retryDelivery settles: when it is
\* fulfilled the event has been republished once more
RepublishSettles(ok) ==
    /\ RetrySettles(ok)
    /\ redeliveries' = IF ok THEN redeliveries + 1 ELSE redeliveries
    /\ copyInFlight' = (copyInFlight \/ ok)
    /\ UNCHANGED dlqEntry

\* DeleteMessage was sent for the entry and did not fail
EntryDeleted ==
    /\ 1 \in deleteIssued
    /\ \A i \in 1..Len(results) : results[i].status # "failed"

\* the entry a failed copy becomes: same event, same failure attributes,
\* received for the first time, sent an hour ago
FreshEntry(record) ==
    [record EXCEPT !.receiveCount = 1, !.sentTimestamp = NowMs - MsPerHour]

\* the invocation is over.  What the queue holds next: the entry of a copy
\* that failed again; nothing, when the entry was deleted and no copy failed;
\* the same entry once more, with its receive count raised, when it was not
\* deleted (until the queue gives it up)
InvocationOver ==
    /\ ReturnDLQ
    /\ copyInFlight' = FALSE
    /\ UNCHANGED redeliveries
    /\ \/ /\ copyInFlight
          /\ redeliveries < MaxRedeliveries
          /\ dlqEntry' = [present |-> TRUE, record |-> FreshEntry(dlqEntry.record)]
       \/ /\ EntryDeleted
          /\ dlqEntry' = NoEntry
       \/ /\ ~EntryDeleted
          /\ dlqEntry.record.receiveCount < MaxReceiveCount
          /\ dlqEntry' = [dlqEntry EXCEPT !.record.receiveCount = @ + 1]
       \/ /\ ~EntryDeleted
          /\ dlqEntry.record.receiveCount = MaxReceiveCount
          /\ dlqEntry' = NoEntry

InitRedelivery ==
    /\ impl = "modular"
    /\ envMongoParam = TRUE
    /\ envSnsTopic = TRUE
    /\ WebhookIdle
    /\ envDlqUrl \in BOOLEAN
    /\ envCriticalTopic \in BOOLEAN
    /\ DLQIdle
    /\ RaceIdle
    /\ ConfigIdle
    /\ UnitIdle
    /\ dlqEntry \in {[present |-> TRUE, record |-> r] :
                         r \in {e \in Records : e.bodyKind = "event" /\ e.receiveCount = 1}}
    /\ copyInFlight = FALSE
    /\ redeliveries = 0
    /\ CacheIdle

NextRedelivery ==
    \/ ReceiveEntry /\ UNCHANGED <<webhookVars, raceVars, configVars, unitVars, cacheVars>>
    \/ TakeEntry /\ UNCHANGED <<webhookVars, raceVars, configVars, unitVars, cacheVars>>
    \/ \E ok \in BOOLEAN : MetricsSettles(ok)
           /\ UNCHANGED <<webhookVars, raceVars, configVars, unitVars, redeliveryVars, cacheVars>>
    \/ \E ok \in BOOLEAN : RepublishSettles(ok)
           /\ UNCHANGED <<webhookVars, raceVars, configVars, unitVars, cacheVars>>
    \/ \E ok \in BOOLEAN : NotifySettles(ok)
           /\ UNCHANGED <<webhookVars, raceVars, configVars, unitVars, redeliveryVars, cacheVars>>
    \/ \E ok \in BOOLEAN : DeleteSettles(ok)
           /\ UNCHANGED <<webhookVars, raceVars, configVars, unitVars, redeliveryVars, cacheVars>>
    \/ NextIteration
           /\ UNCHANGED <<webhookVars, raceVars, configVars, unitVars, redeliveryVars, cacheVars>>
    \/ FinishBatch
           /\ UNCHANGED <<webhookVars, raceVars, configVars, unitVars, redeliveryVars, cacheVars>>
    \/ InvocationOver /\ UNCHANGED <<webhookVars, raceVars, configVars, unitVars, cacheVars>>

SpecRedelivery == InitRedelivery /\ [][NextRedelivery]_vars

-----------------------------------------------------------------------------
(* SSMService called directly: getParameter for several cache keys, one     *)
(* call at a time, and getCacheStats, while time passes.                    *)

\* getParameter calls made
MaxCalls == 2

\* mutant of EntryFresh: an entry exactly cacheTTL old still counts as fresh
EntryFreshInclusive(entry, at) == entry # NoCache /\ at - entry.timestamp <= CacheTTL

\* this.cache.has(cacheKey) and Date.now() - cached.timestamp < this.cacheTTL
EntryFresh(entry, at) == entry # NoCache /\ at - entry.timestamp < CacheTTL

\* getParameter(parameterName, withDecryption, useCache) up to its return
\* from the cache or to `await this.ssmClient.send(command)`
GetParameterCall(parameterName, withDecryption, useCache) ==
    LET cacheKey == CacheKey(parameterName, withDecryption)
    IN  /\ call.state # "awaiting"
        /\ callsDone < MaxCalls
        /\ IF useCache /\ EntryFresh(cache[cacheKey], clock)
           THEN /\ call' = [ state |-> "returned", key |-> cacheKey,
                             useCache |-> useCache, before |-> cache,
                             startedAt |-> clock, sends |-> 0,
                             value |-> cache[cacheKey].value, settledAt |-> clock ]
                /\ callsDone' = callsDone + 1
                /\ UNCHANGED cache
           ELSE /\ call' = [ state |-> "awaiting", key |-> cacheKey,
                             useCache |-> useCache, before |-> cache,
                             startedAt |-> clock, sends |-> 1,
                             value |-> Null, settledAt |-> 0 - 1 ]
                /\ cache' = IF useCache THEN [cache EXCEPT ![cacheKey] = NoCache]
                            ELSE cache
                /\ UNCHANGED callsDone
        /\ UNCHANGED <<clock, stats>>

\* the secret service answers: the value is cached with the time of the
\* answer (when useCache) and returned
GetParameterResolves(value) ==
    /\ call.state = "awaiting"
    /\ cache' = IF call.useCache
                THEN [cache EXCEPT ![call.key] = [value |-> value, timestamp |-> clock]]
                ELSE cache
    /\ call' = [call EXCEPT !.state = "returned", !.value = value, !.settledAt = clock]
    /\ callsDone' = callsDone + 1
    /\ UNCHANGED <<clock, stats>>

\* the secret service fails: getParameter throws "SSM parameter retrieval failed"
GetParameterRejects ==
    /\ call.state = "awaiting"
    /\ call' = [call EXCEPT !.state = "threw", !.settledAt = clock]
    /\ callsDone' = callsDone + 1
    /\ UNCHANGED <<cache, clock, stats>>

\* getCacheStats()
getCacheStats ==
    LET expired == Cardinality({k \in CacheKeys :
                       cache[k] # NoCache /\ clock - cache[k].timestamp >= CacheTTL})
        size == Cardinality({k \in CacheKeys : cache[k] # NoCache})
    IN  /\ stats' = [ totalEntries |-> size, expiredEntries |-> expired,
                      validEntries |-> size - expired ]
        /\ UNCHANGED <<cache, clock, call, callsDone>>

\* a minute passes
CacheTick ==
    /\ clock < MaxClock
    /\ clock' = clock + 1
    /\ stats' = NoStats
    /\ UNCHANGED <<cache, call, callsDone>>

InitCache ==
    /\ impl = "modular"
    /\ envMongoParam = TRUE
    /\ envSnsTopic = TRUE
    /\ WebhookIdle
    /\ envDlqUrl = TRUE
    /\ envCriticalTopic = TRUE
    /\ DLQIdle
    /\ RaceIdle
    /\ ConfigIdle
    /\ RedeliveryIdle
    /\ CacheIdle
    /\ UnitIdle

NextCache ==
    \/ \E n \in ParameterNames, d \in BOOLEAN, useCache \in BOOLEAN :
           GetParameterCall(n, d, useCache)
               /\ UNCHANGED <<webhookVars, dlqVars, raceVars, configVars, unitVars,
                              redeliveryVars>>
    \/ \E value \in SecretValues : GetParameterResolves(value)
           /\ UNCHANGED <<webhookVars, dlqVars, raceVars, configVars, unitVars,
                          redeliveryVars>>
    \/ GetParameterRejects
           /\ UNCHANGED <<webhookVars, dlqVars, raceVars, configVars, unitVars,
                          redeliveryVars>>
    \/ getCacheStats
           /\ UNCHANGED <<webhookVars, dlqVars, raceVars, configVars, unitVars,
                          redeliveryVars>>
    \/ CacheTick
           /\ UNCHANGED <<webhookVars, dlqVars, raceVars, configVars, unitVars,
                          redeliveryVars>>

SpecCache == InitCache /\ [][NextCache]_vars

-----------------------------------------------------------------------------
(* Ingestion handler (modular, valid configuration): overlapping invocations. *)
(* Execution is single-threaded: an invocation runs without interruption up  *)
(* to an await, and queued continuations run in the order they were queued.  *)

\* what an overlapping invocation leaves alone: the environment and the
\* locals of the one-at-a-time invocation
raceFrame == <<impl, envMongoParam, envSnsTopic, pc, req, normalized,
               secretFetches, storeState, snsState, snsSends, response,
               requestsDone, settleOrder, fetchFailed>>

\* handler() is called for invocation r and runs up to the secret:
\* initializeServices constructs services if there is none, then
\* `if (!mongoUri) mongoUri = await ssm.getParameter(...)`; with mongoUri set
\* the invocation goes on to dispatch with that value
RaceEnter(r) ==
    /\ racers[r].pc = "start"
    /\ continuations = <<>>
    /\ configInstance' = "config"
    /\ services' = "set"
    /\ servicesCreated' = IF services = Null THEN servicesCreated + 1
                          ELSE servicesCreated
    /\ IF mongoUri # Null
       THEN /\ racers' = [racers EXCEPT ![r] =
                             [pc |-> "done", got |-> Null, used |-> mongoUri]]
            /\ UNCHANGED <<mongoUri, ssmCache>>
       ELSE IF CacheFresh
       THEN /\ mongoUri' = ssmCache.value
            /\ racers' = [racers EXCEPT ![r] =
                             [pc |-> "done", got |-> ssmCache.value,
                              used |-> ssmCache.value]]
            /\ UNCHANGED ssmCache
       ELSE /\ ssmCache' = NoCache
            /\ racers' = [racers EXCEPT ![r].pc = "awaitSecret"]
            /\ UNCHANGED mongoUri
    /\ UNCHANGED <<now, continuations, returned>>
    /\ UNCHANGED raceFrame

\* GetParameter of invocation r returns: getParameter's continuation stores
\* the value in the cache and returns it; the handler's continuation, which
\* assigns mongoUri, is queued
RaceSecretResolved(r, value) ==
    /\ racers[r].pc = "awaitSecret"
    /\ ssmCache' = [value |-> value, timestamp |-> now]
    /\ returned' = returned \cup {value}
    /\ racers' = [racers EXCEPT ![r] = [pc |-> "assign", got |-> value, used |-> Null]]
    /\ continuations' = Append(continuations, r)
    /\ UNCHANGED <<configInstance, services, mongoUri, now, servicesCreated>>
    /\ UNCHANGED raceFrame

\* mutant of RaceAssign: a value already in mongoUri is kept
RaceAssignFirstWins ==
    /\ continuations # <<>>
    /\ LET r == Head(continuations)
           v == IF mongoUri = Null THEN racers[r].got ELSE mongoUri
       IN  /\ mongoUri' = v
           /\ racers' = [racers EXCEPT ![r] =
                            [pc |-> "done", got |-> racers[r].got, used |-> v]]
    /\ continuations' = Tail(continuations)
    /\ UNCHANGED <<configInstance, services, ssmCache, now, servicesCreated, returned>>
    /\ UNCHANGED raceFrame

\* the oldest queued continuation runs: `mongoUri = <value>`, then the
\* invocation goes on to dispatch with it
RaceAssign ==
    /\ continuations # <<>>
    /\ LET r == Head(continuations)
       IN  /\ mongoUri' = racers[r].got
           /\ racers' = [racers EXCEPT ![r] =
                            [pc |-> "done", got |-> racers[r].got,
                             used |-> racers[r].got]]
    /\ continuations' = Tail(continuations)
    /\ UNCHANGED <<configInstance, services, ssmCache, now, servicesCreated, returned>>
    /\ UNCHANGED raceFrame

\* GetParameter of invocation r fails: getParameter rethrows, nothing is
\* cached or assigned, and the invocation answers 500
RaceSecretFailed(r) ==
    /\ racers[r].pc = "awaitSecret"
    /\ racers' = [racers EXCEPT ![r].pc = "failed"]
    /\ UNCHANGED <<configInstance, services, mongoUri, ssmCache, now,
                   continuations, servicesCreated, returned>>
    /\ UNCHANGED raceFrame

\* a minute passes; queued continuations run before any time passes
RaceTick ==
    /\ continuations = <<>>
    /\ now < MaxClock
    /\ now' = now + 1
    /\ UNCHANGED <<configInstance, services, mongoUri, ssmCache, racers,
                   continuations, servicesCreated, returned>>
    /\ UNCHANGED raceFrame

InitRace ==
    /\ impl = "modular"
    /\ envMongoParam = TRUE
    /\ envSnsTopic = TRUE
    /\ WebhookIdle
    /\ envDlqUrl = TRUE
    /\ envCriticalTopic = TRUE
    /\ DLQIdle
    /\ RaceIdle
    /\ ConfigIdle
    /\ RedeliveryIdle
    /\ CacheIdle
    /\ UnitIdle

NextRace ==
    \/ \E r \in 1..NumRacers : RaceEnter(r) /\ UNCHANGED <<dlqVars, configVars, unitVars, redeliveryVars, cacheVars>>
    \/ \E r \in 1..NumRacers, value \in SecretValues :
           RaceSecretResolved(r, value) /\ UNCHANGED <<dlqVars, configVars, unitVars, redeliveryVars, cacheVars>>
    \/ RaceAssign /\ UNCHANGED <<dlqVars, configVars, unitVars, redeliveryVars, cacheVars>>
    \/ \E r \in 1..NumRacers : RaceSecretFailed(r) /\ UNCHANGED <<dlqVars, configVars, unitVars, redeliveryVars, cacheVars>>
    \/ RaceTick /\ UNCHANGED <<dlqVars, configVars, unitVars, redeliveryVars, cacheVars>>

SpecRace == InitRace /\ [][NextRace]_vars

-----------------------------------------------------------------------------
(* Configuration singleton: getConfig and resetConfig under an environment  *)
(* that the deployment (or a test) may change between calls.                *)

\* what the configuration module leaves alone: the handler's state
configFrame == <<impl, services, mongoUri, ssmCache, now, pc, req, normalized,
                 secretFetches, storeState, snsState, snsSends, response,
                 requestsDone, settleOrder, fetchFailed>>

\* Config._validate: the required entries, AWS_REGION always having its default
RequiredConfig(mongodbUriParameter) ==
    << [key |-> "AWS_REGION", value |-> TRUE],
       [key |-> "MONGODB_URI_PARAMETER", value |-> mongodbUriParameter] >>

\* required.filter(config => !config.value).map(config => config.key)
MissingKeys(mongodbUriParameter) ==
    LET missing == SelectSeq(RequiredConfig(mongodbUriParameter), LAMBDA c : ~c.value)
    IN  [i \in 1..Len(missing) |-> missing[i].key]

\* process.env.MONGODB_URI_PARAMETER / SNS_TOPIC_ARN is assigned or deleted
SetEnv(mongodbUriParameter, snsTopicArn) ==
    /\ <<mongodbUriParameter, snsTopicArn>> # <<envMongoParam, envSnsTopic>>
    /\ envMongoParam' = mongodbUriParameter
    /\ envSnsTopic' = snsTopicArn
    /\ UNCHANGED <<configInstance, configVars>>
    /\ UNCHANGED configFrame

\* getConfig() with a singleton installed before the constructor has validated
getConfigInstallsUnvalidated ==
    /\ configCalls < MaxConfigCalls
    /\ configCalls' = configCalls + 1
    /\ IF configInstance # Null
       THEN /\ configResult' = [outcome |-> "returned", instance |-> configSerial,
                               message |-> "", keys |-> <<>>]
            /\ UNCHANGED <<configInstance, configSnapshot, configSerial, configFailures>>
       ELSE /\ configInstance' = "config"
            /\ configSerial' = configSerial + 1
            /\ configSnapshot' = [mongodbUriParameter |-> envMongoParam,
                                  snsTopicArn |-> envSnsTopic]
            /\ IF MissingKeys(envMongoParam) # <<>>
               THEN /\ configFailures' = configFailures + 1
                    /\ configResult' = [outcome |-> "threw", instance |-> 0,
                                        message |-> "Missing required configuration",
                                        keys |-> MissingKeys(envMongoParam)]
               ELSE /\ configResult' = [outcome |-> "returned",
                                        instance |-> configSerial + 1,
                                        message |-> "", keys |-> <<>>]
                    /\ UNCHANGED configFailures
    /\ UNCHANGED <<envMongoParam, envSnsTopic>>
    /\ UNCHANGED configFrame

\* getConfig(): `if (!configInstance) configInstance = new Config()`; the
\* constructor captures the environment and then validates, and a throw
\* leaves the assignment undone
getConfig ==
    /\ configCalls < MaxConfigCalls
    /\ configCalls' = configCalls + 1
    /\ IF configInstance # Null
       THEN /\ configResult' = [outcome |-> "returned", instance |-> configSerial,
                               message |-> "", keys |-> <<>>]
            /\ UNCHANGED <<configInstance, configSnapshot, configSerial, configFailures>>
       ELSE IF MissingKeys(envMongoParam) # <<>>
       THEN /\ configFailures' = configFailures + 1
            /\ configResult' = [outcome |-> "threw", instance |-> 0,
                                message |-> "Missing required configuration",
                                keys |-> MissingKeys(envMongoParam)]
            /\ UNCHANGED <<configInstance, configSnapshot, configSerial>>
       ELSE /\ configInstance' = "config"
            /\ configSerial' = configSerial + 1
            /\ configSnapshot' = [mongodbUriParameter |-> envMongoParam,
                                  snsTopicArn |-> envSnsTopic]
            /\ configResult' = [outcome |-> "returned", instance |-> configSerial + 1,
                                message |-> "", keys |-> <<>>]
            /\ UNCHANGED configFailures
    /\ UNCHANGED <<envMongoParam, envSnsTopic>>
    /\ UNCHANGED configFrame

\* resetConfig(): configInstance = null
resetConfig ==
    /\ configInstance # Null
    /\ configInstance' = Null
    /\ configSnapshot' = NoSnapshot
    /\ UNCHANGED <<configSerial, configCalls, configFailures, configResult>>
    /\ UNCHANGED <<envMongoParam, envSnsTopic>>
    /\ UNCHANGED configFrame

InitConfig ==
    /\ impl = "modular"
    /\ envMongoParam \in BOOLEAN
    /\ envSnsTopic \in BOOLEAN
    /\ WebhookIdle
    /\ envDlqUrl = TRUE
    /\ envCriticalTopic = TRUE
    /\ DLQIdle
    /\ RaceIdle
    /\ ConfigIdle
    /\ RedeliveryIdle
    /\ CacheIdle
    /\ UnitIdle

NextConfig ==
    \/ \E mongodbUriParameter \in BOOLEAN, snsTopicArn \in BOOLEAN :
           SetEnv(mongodbUriParameter, snsTopicArn)
               /\ UNCHANGED <<dlqVars, raceVars, unitVars, redeliveryVars, cacheVars>>
    \/ getConfig /\ UNCHANGED <<dlqVars, raceVars, unitVars, redeliveryVars, cacheVars>>
    \/ resetConfig /\ UNCHANGED <<dlqVars, raceVars, unitVars, redeliveryVars, cacheVars>>

SpecConfig == InitConfig /\ [][NextConfig]_vars

-----------------------------------------------------------------------------
(* Strings of the event normalizer and of the header utilities: tuples of   *)
(* one-character strings, as the code's string operations see them.         *)

UpperCase ==
    << "A", "B", "C", "D", "E", "F", "G", "H", "I", "J", "K", "L", "M",
       "N", "O", "P", "Q", "R", "S", "T", "U", "V", "W", "X", "Y", "Z" >>

LowerCase ==
    << "a", "b", "c", "d", "e", "f", "g", "h", "i", "j", "k", "l", "m",
       "n", "o", "p", "q", "r", "s", "t", "u", "v", "w", "x", "y", "z" >>

Digits == <<"0", "1", "2", "3", "4", "5", "6", "7", "8", "9">>

\* the character class [a-zA-Z0-9]
IsAlphanumeric(c) == c \in SeqToSet(UpperCase) \cup SeqToSet(LowerCase) \cup SeqToSet(Digits)

\* String.prototype.toLowerCase, character by character
toLowerCase(str) ==
    [i \in 1..Len(str) |->
        IF \E k \in 1..Len(UpperCase) : UpperCase[k] = str[i]
        THEN LowerCase[CHOOSE k \in 1..Len(UpperCase) : UpperCase[k] = str[i]]
        ELSE str[i]]

\* String.prototype.substring(start, end): arguments below 0 count as 0,
\* arguments beyond the length as the length
Substring(str, start, end) ==
    LET clamp(n) == IF n < 0 THEN 0 ELSE IF n > Len(str) THEN Len(str) ELSE n
        from == IF clamp(start) < clamp(end) THEN clamp(start) ELSE clamp(end)
        to == IF clamp(start) < clamp(end) THEN clamp(end) ELSE clamp(start)
    IN  SubSeq(str, from + 1, to)

\* all strings over an alphabet up to a length
RECURSIVE StringsUpTo(_, _)
StringsUpTo(alphabet, n) ==
    IF n = 0 THEN {<<>>}
    ELSE LET shorter == StringsUpTo(alphabet, n - 1)
         IN  shorter \cup {Append(str, c) : str \in shorter, c \in alphabet}

-----------------------------------------------------------------------------
(* Event normalizer: generateCollectionName *)

NameRoot == <<"r", "o", "o", "t">>

NameUnknown == <<"u", "n", "k", "n", "o", "w", "n">>

StrSlash == <<"/">>

\* path.replace(/[^a-zA-Z0-9]/g, "-")
ReplaceNonAlphanumeric(path) ==
    [i \in 1..Len(path) |-> IF IsAlphanumeric(path[i]) THEN path[i] ELSE "-"]

\* name.replace(/^-+|-+$/g, ""): the leading and the trailing run of "-" go
StripDashes(name) ==
    LET kept == {i \in 1..Len(name) : name[i] # "-"}
    IN  IF kept = {} THEN <<>>
        ELSE SubSeq(name, CHOOSE i \in kept : \A j \in kept : i <= j,
                          CHOOSE i \in kept : \A j \in kept : i >= j)

\* name.replace(/^-|-$/g, ""): one "-" at each end goes
StripOneDash(name) ==
    LET from == IF Len(name) > 0 /\ name[1] = "-" THEN 2 ELSE 1
        to == IF Len(name) > 0 /\ name[Len(name)] = "-" THEN Len(name) - 1 ELSE Len(name)
    IN  SubSeq(name, from, to)

\* generateCollectionName stripping one "-" per end instead of the runs
generateCollectionNameStripsOne(path) ==
    IF path = <<>> \/ path = StrSlash THEN NameRoot
    ELSE LET collectionName == StripOneDash(ReplaceNonAlphanumeric(path))
         IN  IF collectionName = <<>> THEN NameUnknown ELSE collectionName

\* generateCollectionName replacing with /\W/g, which keeps "_"
generateCollectionNameKeepsUnderscore(path) ==
    IF path = <<>> \/ path = StrSlash THEN NameRoot
    ELSE LET replaced == [i \in 1..Len(path) |->
                            IF IsAlphanumeric(path[i]) \/ path[i] = "_"
                            THEN path[i] ELSE "-"]
             collectionName == StripDashes(replaced)
         IN  IF collectionName = <<>> THEN NameUnknown ELSE collectionName

\* generateCollectionName without the test for "/"
generateCollectionNameNoSlashCase(path) ==
    IF path = <<>> THEN NameRoot
    ELSE LET collectionName == StripDashes(ReplaceNonAlphanumeric(path))
         IN  IF collectionName = <<>> THEN NameUnknown ELSE collectionName

\* generateCollectionName without the fallback for an empty name
generateCollectionNameNoFallback(path) ==
    IF path = <<>> \/ path = StrSlash THEN NameRoot
    ELSE StripDashes(ReplaceNonAlphanumeric(path))

\* generateCollectionName(path), path a string (`!path` is the empty string)
generateCollectionName(path) ==
    IF path = <<>> \/ path = StrSlash THEN NameRoot
    ELSE LET collectionName == StripDashes(ReplaceNonAlphanumeric(path))
         IN  IF collectionName = <<>> THEN NameUnknown ELSE collectionName

PathRoot == <<"/", "r", "o", "o", "t">>

PathUnknown == <<"/", "u", "n", "k", "n", "o", "w", "n">>

PathTelegram == <<"/", "m", "e", "s", "s", "a", "g", "e", "s", "/", "t", "e", "l", "e", "g", "r", "a", "m", "/", "r", "e", "q", "u", "e", "s", "t">>

\* event.path of the requests drawn
RequestPaths ==
    StringsUpTo({"/", "-", "_", ".", "a", "Z", "9"}, MaxPathLen)
        \cup {PathRoot, NameRoot, PathUnknown, NameUnknown, PathTelegram, PathPaymentCharge}

-----------------------------------------------------------------------------
(* Header utilities (src/src/utils/headers.util.js). A header map is the    *)
(* sequence of its entries in Object.entries order; a value is a string or  *)
(* a number, written by its characters.                                     *)

StringValue(text) == [str |-> TRUE, text |-> text]

NumberValue(text) == [str |-> FALSE, text |-> text]

\* a value that is not an object: null, undefined or a non-empty string
NonObject(type) == [type |-> type, entries |-> <<>>]

HeaderMap(entries) == [type |-> "object", entries |-> entries]

\* `!headers`
IsFalsy(headers) == headers.type \in {"null", "undefined"}

\* `typeof headers !== 'object'` (typeof null is 'object')
TypeofObject(headers) == headers.type \in {"object", "null"}

StrHeaders == <<"h", "e", "a", "d", "e", "r", "s">>

StrProto == <<"_", "_", "p", "r", "o", "t", "o", "_", "_">>

\* constructedHeaders[key] = value on an object created by `{}`: an
\* ordinary key becomes (or updates) an own property; "__proto__" reaches
\* the accessor inherited from Object.prototype, whose setter ignores a
\* value that is neither an object nor null and creates no own property
AssignProperty(object, key, value) ==
    IF key = StrProto THEN object
    ELSE IF \E i \in 1..Len(object) : object[i].key = key
    THEN [i \in 1..Len(object) |->
             IF object[i].key = key THEN [key |-> key, value |-> value] ELSE object[i]]
    ELSE Append(object, [key |-> key, value |-> value])

\* the loop of sanitizeHeaders over Object.entries(originalHeaders)
RECURSIVE ConstructHeaders(_)
ConstructHeaders(entries) ==
    IF entries = <<>> THEN <<>>
    ELSE LET before == ConstructHeaders(SubSeq(entries, 1, Len(entries) - 1))
             entry == entries[Len(entries)]
         IN  IF toLowerCase(entry.key) # StrHeaders
             THEN AssignProperty(before, entry.key, entry.value)
             ELSE before

\* the loop of sanitizeHeaders comparing the key itself with "headers"
RECURSIVE ConstructHeadersExactKey(_)
ConstructHeadersExactKey(entries) ==
    IF entries = <<>> THEN <<>>
    ELSE LET before == ConstructHeadersExactKey(SubSeq(entries, 1, Len(entries) - 1))
             entry == entries[Len(entries)]
         IN  IF entry.key # StrHeaders
             THEN AssignProperty(before, entry.key, entry.value)
             ELSE before

\* HeadersUtil.sanitizeHeaders(originalHeaders)
sanitizeHeaders(originalHeaders) ==
    IF IsFalsy(originalHeaders) \/ ~TypeofObject(originalHeaders) THEN <<>>
    ELSE ConstructHeaders(originalHeaders.entries)

\* JSON.stringify of a string: quotes around it, `"` and `\` escaped
RECURSIVE Quoted(_)
Quoted(text) ==
    IF text = <<>> THEN <<>>
    ELSE LET c == text[Len(text)]
             before == Quoted(SubSeq(text, 1, Len(text) - 1))
         IN  IF c = "\"" \/ c = "\\" THEN before \o <<"\\", c>> ELSE Append(before, c)

JSONstringifyString(text) == <<"\"">> \o Quoted(text) \o <<"\"">>

JSONstringifyValue(value) ==
    IF value.str THEN JSONstringifyString(value.text) ELSE value.text

\* the members of an object, separated by commas
RECURSIVE JSONmembers(_)
JSONmembers(entries) ==
    IF entries = <<>> THEN <<>>
    ELSE LET entry == entries[Len(entries)]
             member == JSONstringifyString(entry.key) \o <<":">>
                           \o JSONstringifyValue(entry.value)
         IN  IF Len(entries) = 1 THEN member
             ELSE JSONmembers(SubSeq(entries, 1, Len(entries) - 1)) \o <<",">> \o member

\* JSON.stringify(constructedHeaders)
JSONstringify(entries) == <<"{">> \o JSONmembers(entries) \o <<"}">>

\* the literal appended to a truncated serialization
TruncationMarker == <<",", "\"", "_", "t", "r", "u", "n", "c", "a", "t", "e", "d", "\"", ":", "t", "r", "u", "e", "}">>

\* createHeadersAttribute returned null
NoAttribute == [DataType |-> "null", StringValue |-> <<>>]

\* createHeadersAttribute's parameter default
DefaultMaxSize == 50000

\* HeadersUtil.createHeadersAttribute(headers, maxSize)
createHeadersAttribute(headers, maxSize) ==
    IF IsFalsy(headers) \/ ~TypeofObject(headers) THEN NoAttribute
    ELSE LET constructedHeaders == sanitizeHeaders(headers)
             headersJson == JSONstringify(constructedHeaders)
         IN  IF Len(constructedHeaders) = 0 THEN NoAttribute
             ELSE IF Len(headersJson) <= maxSize
             THEN [DataType |-> "String", StringValue |-> headersJson]
             ELSE [DataType |-> "String",
                   StringValue |-> Substring(headersJson, 0, maxSize - 20)
                                       \o TruncationMarker]

\* getHeaderValue(headerName): the value of the first entry whose key equals
\* headerName ignoring case; null when there is none
getHeaderValue(entries, headerName) ==
    LET matching == {i \in 1..Len(entries) :
                        toLowerCase(entries[i].key) = toLowerCase(headerName)}
    IN  IF matching = {} THEN [found |-> FALSE, value |-> StringValue(<<>>)]
        ELSE [found |-> TRUE,
              value |-> entries[CHOOSE i \in matching : \A j \in matching : i <= j].value]

\* the left operand of `||` is kept: it is neither null, "" nor 0
IsTruthy(lookup) ==
    /\ lookup.found
    /\ IF lookup.value.str THEN lookup.value.text # <<>> ELSE lookup.value.text # <<"0">>

StrXCorrelationId == <<"x", "-", "c", "o", "r", "r", "e", "l", "a", "t", "i", "o", "n", "-", "i", "d">>

StrCorrelationId == <<"c", "o", "r", "r", "e", "l", "a", "t", "i", "o", "n", "-", "i", "d">>

StrXRequestId == <<"x", "-", "r", "e", "q", "u", "e", "s", "t", "-", "i", "d">>

StrRequestId == <<"r", "e", "q", "u", "e", "s", "t", "-", "i", "d">>

\* getHeaderValue(first) || getHeaderValue(second) || randomUUID()
FirstTruthy(entries, first, second, uuid) ==
    IF IsTruthy(getHeaderValue(entries, first))
    THEN [value |-> getHeaderValue(entries, first).value, generated |-> FALSE]
    ELSE IF IsTruthy(getHeaderValue(entries, second))
    THEN [value |-> getHeaderValue(entries, second).value, generated |-> FALSE]
    ELSE [value |-> StringValue(uuid), generated |-> TRUE]

\* HeadersUtil.extractTrackingIds(headers); uuids are the values randomUUID
\* returns, in the order of its calls
extractTrackingIds(headers, uuids) ==
    IF IsFalsy(headers) \/ ~TypeofObject(headers)
    THEN [correlationId |-> StringValue(uuids[1]), requestId |-> StringValue(uuids[2])]
    ELSE LET correlation == FirstTruthy(headers.entries, StrXCorrelationId,
                                        StrCorrelationId, uuids[1])
             request == FirstTruthy(headers.entries, StrXRequestId, StrRequestId,
                                    IF correlation.generated THEN uuids[2] ELSE uuids[1])
         IN  [correlationId |-> correlation.value, requestId |-> request.value]

\* header maps of up to MaxHeaders entries with distinct keys
HeaderMapsOver(keys, values) ==
    LET candidates == UNION {[1..n -> [key : keys, value : values]] : n \in 0..MaxHeaders}
    IN  {HeaderMap(entries) : entries \in
            {c \in candidates : \A i, j \in 1..Len(c) : c[i].key = c[j].key => i = j}}

\* what is passed where a header map is expected but none is there
NonObjects == {NonObject("null"), NonObject("undefined"), NonObject("string")}

\* the arguments drawn for sanitizeHeaders
SanitizeInputs ==
    LET keys ==
            { StrHeaders, StrProto,
            <<"H", "e", "a", "d", "e", "r", "s">>,
            <<"H", "E", "A", "D", "E", "R", "S">>,
            <<"H", "e", "A", "d", "E", "r", "S">>,
            <<"x", "-", "h", "e", "a", "d", "e", "r", "s">>,
            <<"h", "e", "a", "d", "e", "r", "s", "-", "t", "e", "s", "t">>,
            <<"c", "o", "n", "t", "e", "n", "t", "-", "t", "y", "p", "e">> }
        values ==
            { StringValue(<<"a", "p", "p", "l", "i", "c", "a", "t", "i", "o", "n",
                            "/", "j", "s", "o", "n">>),
              StringValue(<<>>),
              NumberValue(<<"4", "2">>) }
    IN  HeaderMapsOver(keys, values) \cup NonObjects

\* the arguments drawn for createHeadersAttribute
AttributeInputs ==
    LET keys ==
            {<<"a">>, StrHeaders, <<"x", "-", "i", "d">>}
        values ==
            { StringValue(<<>>), StringValue(<<"v">>), NumberValue(<<"7">>),
            StringValue(<<"0", "1", "2", "3", "4", "5", "6", "7", "8", "9", "0", "1", "2", "3", "4", "5", "6", "7", "8", "9", "0", "1", "2", "3", "4">>) }
    IN  [headers : HeaderMapsOver(keys, values) \cup NonObjects,
         maxSize : 0..MaxSizeLimit \cup {DefaultMaxSize}]

\* the arguments drawn for extractTrackingIds, with the values randomUUID returns
TrackingInputs ==
    LET keys ==
            { <<"X", "-", "C", "o", "r", "r", "e", "l", "a", "t", "i", "o", "n", "-", "I", "D">>,
            StrXCorrelationId, StrCorrelationId,
            <<"X", "-", "R", "E", "Q", "U", "E", "S", "T", "-", "I", "D">>,
            StrRequestId, <<"c", "o", "n", "t", "e", "n", "t", "-", "t", "y", "p", "e">> }
        values ==
            { StringValue(<<>>), StringValue(<<"t", "e", "s", "t", "-", "1", "2", "3">>),
            StringValue(<<"r", "e", "q", "-", "4", "5", "6">>) }
    IN  [headers : HeaderMapsOver(keys, values) \cup NonObjects,
         uuids : {<< <<"u", "u", "i", "d", "-", "1">>,
                     <<"u", "u", "i", "d", "-", "2">> >>}]

\* if (headerValue.length > 8192)
MaxHeaderValueLength == 8192

\* /<[^>]*>/g.test(str) when the pattern's lastIndex is lastIndex: the search
\* starts there; a match leaves lastIndex behind the tag, a failure at 0
HtmlTagTest(str, lastIndex) ==
    LET starts == {i \in (lastIndex + 1)..Len(str) :
                      str[i] = "<" /\ \E j \in (i + 1)..Len(str) : str[j] = ">"}
        first == CHOOSE i \in starts : \A k \in starts : i <= k
        closings == {j \in (first + 1)..Len(str) : str[j] = ">"}
    IN  IF starts = {} THEN [matched |-> FALSE, lastIndex |-> 0]
        ELSE [matched |-> TRUE,
              lastIndex |-> CHOOSE j \in closings : \A k \in closings : j <= k]

\* pattern.test(headerValue) || pattern.test(key) for /<[^>]*>/g
HtmlTagTestEither(headerValue, key, lastIndex) ==
    IF HtmlTagTest(headerValue, lastIndex).matched
    THEN HtmlTagTest(headerValue, lastIndex)
    ELSE HtmlTagTest(key, 0)

\* /script/i.test(str) and /javascript:/i.test(str)
ScriptTest(str) == Includes(toLowerCase(str), <<"s", "c", "r", "i", "p", "t">>)

JavascriptTest(str) == Includes(toLowerCase(str), <<"j", "a", "v", "a", "s", "c", "r", "i", "p", "t", ":">>)

\* the issues pushed in one pass of the loop over Object.entries(headers)
HeaderIssues(entry, lastIndex) ==
    LET headerValue == entry.value.text
        key == entry.key
    IN  (IF Len(headerValue) > MaxHeaderValueLength
         THEN <<[kind |-> "length", key |-> key]>> ELSE <<>>)
        \o (IF ScriptTest(headerValue) \/ ScriptTest(key)
            THEN <<[kind |-> "script", key |-> key]>> ELSE <<>>)
        \o (IF HtmlTagTestEither(headerValue, key, lastIndex).matched
            THEN <<[kind |-> "html", key |-> key]>> ELSE <<>>)
        \o (IF JavascriptTest(headerValue) \/ JavascriptTest(key)
            THEN <<[kind |-> "javascript", key |-> key]>> ELSE <<>>)

\* the loop of validateHeaders from entry i on; lastIndex belongs to the one
\* pattern object with the g flag, which all passes share
RECURSIVE ValidateEntries(_, _, _, _)
ValidateEntries(entries, i, lastIndex, issues) ==
    IF i > Len(entries) THEN issues
    ELSE ValidateEntries(entries, i + 1,
             HtmlTagTestEither(entries[i].value.text, entries[i].key, lastIndex).lastIndex,
             issues \o HeaderIssues(entries[i], lastIndex))

\* HeadersUtil.validateHeaders(headers)
validateHeaders(headers) ==
    IF IsFalsy(headers) \/ ~TypeofObject(headers)
    THEN [isValid |-> TRUE, issues |-> <<>>]
    ELSE LET issues == ValidateEntries(headers.entries, 1, 0, <<>>)
         IN  [isValid |-> Len(issues) = 0, issues |-> issues]

\* the arguments drawn for validateHeaders: maps of short values, and maps
\* with a value of MaxHeaderValueLength characters and of one more
ValidateInputs ==
    LET keys == { <<"x", "-", "a">>, <<"x", "-", "b">>, <<"X", "-", "S", "c", "r", "i", "p", "t">> }
        values == { StringValue(<<"o", "k">>), StringValue(<<"<", "b", ">", "b", "o", "l", "d", "<", "/", "b", ">">>), StringValue(<<"<", "i", ">">>),
                    StringValue(<<"j", "a", "v", "a", "s", "c", "r", "i", "p", "t", ":", "a", "l", "e", "r", "t", "(", "'", "b", "a", "d", "'", ")">>), StringValue(<<"a", ">", "b", "<", "c">>),
                    NumberValue(<<"7">>) }
        long(n) == StringValue([i \in 1..n |-> "a"])
        lengths == {MaxHeaderValueLength, MaxHeaderValueLength + 1}
    IN  HeaderMapsOver(keys, values) \cup NonObjects
            \cup {HeaderMap(<<[key |-> <<"x", "-", "a">>, value |-> long(n)]>>) : n \in lengths}
            \cup {HeaderMap(<< [key |-> <<"x", "-", "b">>, value |-> StringValue(<<"<", "b", ">", "b", "o", "l", "d", "<", "/", "b", ">">>)],
                               [key |-> <<"x", "-", "a">>, value |-> long(n)] >>) : n \in lengths}

-----------------------------------------------------------------------------
(* Event normalizer: extractEventData. JSON.parse is the parser of the JSON *)
(* grammar over the characters of the bodies drawn: whitespace, the three   *)
(* literals, integers, strings with the escapes \" \\ \/ \n \t, arrays and  *)
(* objects.                                                                 *)

\* a parsed value: a scalar by its characters, an array or an object by its
\* items; key is the member name of an item of an object
JsonValue(t, text, items) == [t |-> t, text |-> text, key |-> <<>>, items |-> items]

JsonNone == JsonValue("none", <<>>, <<>>)

JsonString(text) == JsonValue("string", text, <<>>)

ParseFailed == [ok |-> FALSE, value |-> JsonNone, rest |-> <<>>]

Parsed(value, rest) == [ok |-> TRUE, value |-> value, rest |-> rest]

IsWhitespace(c) == c \in {" ", "\t", "\n", "\r"}

Drop(str, n) == SubSeq(str, n + 1, Len(str))

StartsWith(str, prefix) ==
    Len(str) >= Len(prefix) /\ SubSeq(str, 1, Len(prefix)) = prefix

SkipWhitespace(str) ==
    LET kept == {i \in 1..Len(str) : ~IsWhitespace(str[i])}
    IN  IF kept = {} THEN <<>>
        ELSE Drop(str, (CHOOSE i \in kept : \A j \in kept : i <= j) - 1)

\* the characters of a string literal after its opening quote
RECURSIVE ScanString(_, _)
ScanString(str, acc) ==
    IF str = <<>> THEN [ok |-> FALSE, text |-> <<>>, rest |-> <<>>]
    ELSE IF str[1] = "\"" THEN [ok |-> TRUE, text |-> acc, rest |-> Drop(str, 1)]
    ELSE IF str[1] = "\\"
    THEN IF Len(str) < 2 THEN [ok |-> FALSE, text |-> <<>>, rest |-> <<>>]
         ELSE IF str[2] \in {"\"", "\\", "/"}
         THEN ScanString(Drop(str, 2), Append(acc, str[2]))
         ELSE IF str[2] = "n" THEN ScanString(Drop(str, 2), Append(acc, "\n"))
         ELSE IF str[2] = "t" THEN ScanString(Drop(str, 2), Append(acc, "\t"))
         ELSE [ok |-> FALSE, text |-> <<>>, rest |-> <<>>]
    ELSE IF str[1] \in {"\t", "\n", "\r"}
    THEN [ok |-> FALSE, text |-> <<>>, rest |-> <<>>]
    ELSE ScanString(Drop(str, 1), Append(acc, str[1]))

\* an integer: an optional "-", then "0" or a digit 1-9 followed by digits
ParseNumber(str) ==
    LET negative == str # <<>> /\ str[1] = "-"
        digits == IF negative THEN Drop(str, 1) ELSE str
        isDigit(i) == digits[i] \in SeqToSet(Digits)
        run == {n \in 0..Len(digits) : \A i \in 1..n : isDigit(i)}
        longest == CHOOSE n \in run : \A m \in run : m <= n
        taken == IF longest > 0 /\ digits[1] = "0" THEN 1 ELSE longest
    IN  IF taken = 0 THEN ParseFailed
        ELSE Parsed(JsonValue("number",
                              SubSeq(str, 1, taken + (IF negative THEN 1 ELSE 0)),
                              <<>>),
                    Drop(digits, taken))

StrNull == << "n", "u", "l", "l" >>

StrTrue == << "t", "r", "u", "e" >>

StrFalse == << "f", "a", "l", "s", "e" >>

RECURSIVE ParseValue(_), ParseElements(_, _), ParseMembers(_, _)

\* one JSON value at the start of str, whitespace before it skipped
ParseValue(str) ==
    LET text == SkipWhitespace(str)
    IN  IF text = <<>> THEN ParseFailed
        ELSE IF StartsWith(text, StrNull)
        THEN Parsed(JsonValue("null", StrNull, <<>>), Drop(text, 4))
        ELSE IF StartsWith(text, StrTrue)
        THEN Parsed(JsonValue("boolean", StrTrue, <<>>), Drop(text, 4))
        ELSE IF StartsWith(text, StrFalse)
        THEN Parsed(JsonValue("boolean", StrFalse, <<>>), Drop(text, 5))
        ELSE IF text[1] = "\""
        THEN LET string == ScanString(Drop(text, 1), <<>>)
             IN  IF string.ok THEN Parsed(JsonString(string.text), string.rest)
                 ELSE ParseFailed
        ELSE IF text[1] = "-" \/ text[1] \in SeqToSet(Digits) THEN ParseNumber(text)
        ELSE IF text[1] = "["
        THEN LET inner == SkipWhitespace(Drop(text, 1))
             IN  IF inner # <<>> /\ inner[1] = "]"
                 THEN Parsed(JsonValue("array", <<>>, <<>>), Drop(inner, 1))
                 ELSE ParseElements(inner, <<>>)
        ELSE IF text[1] = "{"
        THEN LET inner == SkipWhitespace(Drop(text, 1))
             IN  IF inner # <<>> /\ inner[1] = "}"
                 THEN Parsed(JsonValue("object", <<>>, <<>>), Drop(inner, 1))
                 ELSE ParseMembers(inner, <<>>)
        ELSE ParseFailed

\* the elements of an array up to its "]"
ParseElements(str, acc) ==
    LET element == ParseValue(str)
        after == SkipWhitespace(element.rest)
    IN  IF ~element.ok \/ after = <<>> THEN ParseFailed
        ELSE IF after[1] = ","
        THEN ParseElements(Drop(after, 1), Append(acc, element.value))
        ELSE IF after[1] = "]"
        THEN Parsed(JsonValue("array", <<>>, Append(acc, element.value)), Drop(after, 1))
        ELSE ParseFailed

\* the members of an object up to its "}"
ParseMembers(str, acc) ==
    LET text == SkipWhitespace(str)
        name == IF text # <<>> /\ text[1] = "\"" THEN ScanString(Drop(text, 1), <<>>)
                ELSE [ok |-> FALSE, text |-> <<>>, rest |-> <<>>]
        colon == SkipWhitespace(name.rest)
        member == IF name.ok /\ colon # <<>> /\ colon[1] = ":"
                  THEN ParseValue(Drop(colon, 1)) ELSE ParseFailed
        after == SkipWhitespace(member.rest)
        item == [member.value EXCEPT !.key = name.text]
    IN  IF ~member.ok \/ after = <<>> THEN ParseFailed
        ELSE IF after[1] = ","
        THEN ParseMembers(Drop(after, 1), Append(acc, item))
        ELSE IF after[1] = "}"
        THEN Parsed(JsonValue("object", <<>>, Append(acc, item)), Drop(after, 1))
        ELSE ParseFailed

\* JSON.parse(text): the value, or a SyntaxError (ok is FALSE)
JSONparse(text) ==
    LET result == ParseValue(text)
    IN  IF result.ok /\ SkipWhitespace(result.rest) = <<>>
        THEN [ok |-> TRUE, value |-> result.value]
        ELSE [ok |-> FALSE, value |-> JsonNone]

\* a property of the API Gateway event that is null or undefined
Absent == [present |-> FALSE, text |-> <<>>]

Present(text) == [present |-> TRUE, text |-> text]

\* field ?? default
Coalesce(field, default) == IF field.present THEN field.text ELSE default

\* the payload block with the type set as soon as the body is not empty
ParsePayloadTypeFirst(body) ==
    LET payload == Coalesce(body, <<>>)
    IN  IF payload # <<>>
        THEN IF JSONparse(payload).ok
             THEN [payload |-> JSONparse(payload).value, type |-> "application/json"]
             ELSE [payload |-> JsonString(payload), type |-> "application/json"]
        ELSE [payload |-> JsonString(payload), type |-> "text/plain"]

\* let payload = event.body ?? ""; let type = "text/plain";
\* if (payload) { try { payload = JSON.parse(payload); type = ... } catch {} }
ParsePayload(body) ==
    LET payload == Coalesce(body, <<>>)
    IN  IF payload # <<>> /\ JSONparse(payload).ok
        THEN [payload |-> JSONparse(payload).value, type |-> "application/json"]
        ELSE [payload |-> JsonString(payload), type |-> "text/plain"]

\* extractEventData(event); timestamp is new Date().toISOString()
extractEventData(event, timestamp) ==
    LET domain == Coalesce(event.domainName, <<"u", "n", "k", "n", "o", "w", "n", "-", "d", "o", "m", "a", "i", "n">>)
        stage == Coalesce(event.stage, <<>>)
        path == Coalesce(event.path, StrSlash)
        source == <<"h", "t", "t", "p", "s", ":", "/", "/">> \o domain
                      \o (IF stage # <<>> THEN StrSlash \o stage ELSE <<>>) \o path
    IN  [ timestamp |-> timestamp,
          source |-> source,
          transport |->
              [ method |-> Coalesce(event.httpMethod, <<"U", "N", "K", "N", "O", "W", "N">>),
                path |-> path,
                headers |-> IF IsFalsy(event.headers) THEN <<>>
                            ELSE event.headers.entries,
                queryStringParameters |->
                    IF IsFalsy(event.queryStringParameters) THEN <<>>
                    ELSE event.queryStringParameters.entries,
                sourceIp |-> Coalesce(event.sourceIp, <<"u", "n", "k", "n", "o", "w", "n">>) ],
          payload |-> ParsePayload(event.body).payload,
          type |-> ParsePayload(event.body).type,
          isBase64Encoded |-> event.isBase64Encoded = "true" ]

\* SNSService._buildMessage(eventData, environment): the message body
buildMessage(eventData, environment) ==
    [ environment |-> environment,
      timestamp |-> eventData.timestamp,
      source |-> eventData.source,
      transport |-> eventData.transport,
      payload |-> eventData.payload,
      type |-> eventData.type,
      isBase64Encoded |-> eventData.isBase64Encoded ]

\* SNSService._buildMessageAttributes(eventData, environment, trackingIds,
\* datadogTraceId, datadogParentId) for a request without trace context;
\* uuid is what randomUUID returns here
buildMessageAttributes(eventData, environment, trackingIds, uuid) ==
    [ environment |-> environment,
      method |-> eventData.transport.method,
      path |-> eventData.transport.path,
      contentType |-> eventData.type,
      xCorrelationId |->
          IF IsTruthy([found |-> TRUE, value |-> trackingIds.correlationId])
          THEN trackingIds.correlationId ELSE StringValue(uuid),
      xRequestId |->
          IF IsTruthy([found |-> TRUE, value |-> trackingIds.requestId])
          THEN trackingIds.requestId ELSE StringValue(uuid),
      headers |-> createHeadersAttribute(HeaderMap(eventData.transport.headers),
                                         DefaultMaxSize) ]

\* config.environment and config.getDatabaseName()
Environment == "production"

\* processWebhook(event, context) for a request whose secret is resolved, up
\* to the launch of the two branches and the 200 response: what is handed to
\* storeWebhook and to sns.publishWebhookEvent, and the response's collection
processWebhookData(event, timestamp, uuids) ==
    LET \* operations.push(storeWebhook(...), sns.publishWebhookEvent(...)) and
        \* the response body
        launch(eventData, collectionName, trackingIds) ==
            [ eventData |-> eventData,
              store |-> [collectionName |-> collectionName, eventData |-> eventData],
              publish |-> [ message |-> buildMessage(eventData, Environment),
                            attributes |-> buildMessageAttributes(eventData, Environment,
                                                                  trackingIds, uuids[3]) ],
              response |-> [statusCode |-> 200, collection |-> collectionName] ]
        \* collectionName and trackingIds, from the event data
        derive(eventData) ==
            launch(eventData,
                   generateCollectionName(eventData.transport.path),
                   extractTrackingIds(HeaderMap(eventData.transport.headers), uuids))
    IN  derive(extractEventData(event, timestamp))

\* the requests drawn for the whole pipeline, with the values randomUUID returns
PipelineInputs ==
    LET keys == { <<"X", "-", "C", "o", "r", "r", "e", "l", "a", "t", "i", "o", "n", "-", "I", "D">>,
                  StrXCorrelationId, StrCorrelationId,
                  <<"c", "o", "n", "t", "e", "n", "t", "-", "t", "y", "p", "e">> }
        values == { StringValue(<<>>), StringValue(<<"t", "e", "s", "t", "-", "1", "2", "3">>),
                    StringValue(<<"a", "b", "c">>) }
    IN  [ event :
            [ domainName : {Present(<<"a", "p", "i", ".", "t", "e", "s", "t">>)},
              stage : {Absent},
              path : {Absent, Present(<<>>), Present(StrSlash), Present(PathTelegram),
                      Present(<<"/", "m", "e", "s", "s", "a", "g", "e", "s", "/", "t", "e", "l", "e", "g", "r", "a", "m">>)},
              httpMethod : {Present(<<"P", "O", "S", "T">>)},
              sourceIp : {Present(<<"1", ".", "2", ".", "3", ".", "4">>)},
              headers : HeaderMapsOver(keys, values) \cup {NonObject("undefined")},
              queryStringParameters : {NonObject("null")},
              body : {Absent, Present(<<"{", "\"", "a", "\"", ":", "1", "}">>),
                      Present(<<"h", "e", "l", "l", "o">>)},
              isBase64Encoded : {"undefined"} ],
          timestamp : {"2025-01-01T00:00:00.000Z"},
          uuids : {<< <<"u", "u", "i", "d", "-", "1">>,
                      <<"u", "u", "i", "d", "-", "2">>,
                      <<"u", "u", "i", "d", "-", "3">> >>} ]

\* the names of the message attributes every publish carries
BaseAttributes ==
    {"environment", "method", "path", "contentType", "x-correlation-id",
     "x-request-id", "content-type"}

\* the names of the message attributes of the publish a handler issues.
\* Modular (_buildMessageAttributes): the base names, "headers" when the
\* request has headers, the two Datadog names when the tracing library has a
\* context.  Monolithic (publishWebhookEvent): the base names and always the
\* two Datadog names.
AttributeNames(implementation, request) ==
    BaseAttributes
        \cup (IF implementation = "modular" /\ request.hasHeaders THEN {"headers"} ELSE {})
        \cup (IF implementation = "monolithic" \/ request.ddTrace
              THEN {"x-datadog-trace-id", "x-datadog-parent-id"} ELSE {})

\* no publish was issued
NoPublish == [issued |-> FALSE, attributes |-> {}]

\* one invocation of a handler in a new execution environment, as a function
\* of the request, the environment variables and the outcomes of the secret
\* fetch and of the two branches: the response and the publish issued.  The
\* steps are those of HandlerGate, ProcessWebhookStart, SecretFailed, Dispatch,
\* StoreSettles, PublishSettles and Compose.
handlerOutcome(implementation, request) ==
    IF request.method = "GET"
    THEN [ response |-> MethodNotAllowed("GET requests are not supported by this webhook endpoint"),
           publish |-> NoPublish ]
    ELSE IF implementation = "modular" /\ ~request.mongoParam
    THEN [response |-> Thrown, publish |-> NoPublish]
    ELSE IF implementation = "modular" /\ ~validateMethod(request.method)
    THEN [ response |-> MethodNotAllowed(<<request.method, "requests are not supported">>),
           publish |-> NoPublish ]
    ELSE IF implementation = "monolithic" /\ ~request.mongoParam
    THEN [ response |-> ErrorResponse("MONGODB_URI_PARAMETER environment variable not set"),
           publish |-> NoPublish ]
    ELSE IF request.secret = "failed"
    THEN [ response |-> ErrorResponse("SSM parameter retrieval failed"),
           publish |-> NoPublish ]
    ELSE LET sends == request.snsTopic
                          /\ ~(implementation = "monolithic" /\ ~request.ddTrace)
             mongoResult == IF implementation = "modular" THEN "success"
                            ELSE request.store
             snsResult == IF ~request.snsTopic THEN "none"
                          ELSE IF ~sends THEN "failed"
                          ELSE request.publish
         IN  [ response |-> ComposeResponse(mongoResult, snsResult),
               publish |-> IF sends
                           THEN [ issued |-> TRUE,
                                  attributes |-> AttributeNames(implementation, request) ]
                           ELSE NoPublish ]

\* the requests, environments and outcomes drawn for the two handlers
HandlerInputs ==
    { request \in [ method : Methods,
                    ddTrace : BOOLEAN,
                    hasHeaders : BOOLEAN,
                    mongoParam : BOOLEAN,
                    snsTopic : BOOLEAN,
                    secret : {"resolved", "failed"},
                    store : {"success", "failed"},
                    publish : {"success", "failed"} ] :
        request.ddTrace => request.hasHeaders }

\* request bodies drawn that are JSON texts
JsonBodies ==
    { <<"{", "}">>,
      <<"[", "]">>,
      <<"0">>,
      <<"1", "2">>,
      <<"-", "1">>,
      <<"n", "u", "l", "l">>,
      <<"t", "r", "u", "e">>,
      <<"f", "a", "l", "s", "e">>,
      <<"\"", "h", "i", "\"">>,
      <<" ", "1", " ">>,
      <<"{", "\"", "a", "\"", ":", "1", "}">>,
      <<"[", "1", ",", "2", "]">>,
      <<"{", "\"", "a", "\"", ":", "[", "t", "r", "u", "e", ",", "n", "u", "l", "l", "]", "}">>,
      <<"{", "\"", "a", "\"", ":", "\"", "b", "\"", ",", "\"", "c", "\"", ":", "{", "}", "}">>,
      <<"\"", "a", "\\", "\"", "b", "\"">>,
      <<"[", " ", "]">>,
      <<"{", "\"", "a", "\"", " ", ":", " ", "\"", "b", "\"", "}">> }

\* request bodies drawn that are not JSON texts; the first is the empty body
TextBodies ==
    { <<>>,
      <<" ">>,
      <<"h", "e", "l", "l", "o">>,
      <<"n", "u", "l">>,
      <<"t", "r", "u">>,
      <<"0", "1">>,
      <<"-">>,
      <<"\"", "h", "i">>,
      <<"{">>,
      <<"{", "a", ":", "1", "}">>,
      <<"{", "\"", "a", "\"", ":", "1", ",", "}">>,
      <<"[", "1", ",", "]">>,
      <<"[", "1", " ", "2", "]">>,
      <<"{", "\"", "a", "\"", ":", "1", "}", "x">>,
      <<"a", "=", "1", "&", "b", "=", "2">>,
      <<"e", "y", "J", "h", "I", "j", "o", "x", "f", "Q", "=", "=">>,
      <<"'", "a", "'">>,
      <<"{", "\"", "a", "\"", " ", "1", "}">>,
      <<"n", "u", "l", "l", "x">>,
      <<"\"", "a", "\\">> }

\* the API Gateway events drawn
RawEvents ==
    [ domainName : {Absent, Present(<<"a", "p", "i", ".", "t", "e", "s", "t">>)},
      stage : {Absent, Present(<<"p", "r", "o", "d">>)},
      path : {Absent, Present(PathTelegram)},
      httpMethod : {Absent, Present(<<"P", "O", "S", "T">>)},
      sourceIp : {Present(<<"1", ".", "2", ".", "3", ".", "4">>)},
      headers :
          { NonObject("undefined"),
            HeaderMap(<<>>),
            HeaderMap(<< [key |-> <<"c", "o", "n", "t", "e", "n", "t", "-",
                                    "t", "y", "p", "e">>,
                          value |-> StringValue(<<"t", "e", "x", "t">>)] >>),
            HeaderMap(<< [key |-> <<"H", "e", "a", "d", "e", "r", "s">>,
                          value |-> StringValue(<<"x">>)],
                         [key |-> <<"X", "-", "C", "o", "r", "r", "e", "l", "a", "t",
                                    "i", "o", "n", "-", "I", "D">>,
                          value |-> StringValue(<<"t", "e", "s", "t", "-", "1", "2",
                                                  "3">>)] >>) },
      queryStringParameters : {NonObject("null")},
      body : {Absent} \cup {Present(text) : text \in JsonBodies \cup TextBodies},
      isBase64Encoded : {"undefined", "true"} ]

EventInputs == [event : RawEvents, timestamp : {"2025-01-01T00:00:00.000Z"}]

-----------------------------------------------------------------------------
(* The pure functions, each applied to one input *)

\* extractEventData(event)
ApplyExtractEventData ==
    /\ unitFn = "extractEventData"
    /\ unitApplied = 0
    /\ unitApplied' = 1
    /\ unitOutput' = extractEventData(unitInput.event, unitInput.timestamp)
    /\ UNCHANGED <<unitFn, unitInput>>

\* HeadersUtil.sanitizeHeaders(originalHeaders)
ApplySanitizeHeaders ==
    /\ unitFn = "sanitizeHeaders"
    /\ unitApplied = 0
    /\ unitApplied' = 1
    /\ unitOutput' = sanitizeHeaders(unitInput)
    /\ UNCHANGED <<unitFn, unitInput>>

\* HeadersUtil.createHeadersAttribute(headers, maxSize)
ApplyCreateHeadersAttribute ==
    /\ unitFn = "createHeadersAttribute"
    /\ unitApplied = 0
    /\ unitApplied' = 1
    /\ unitOutput' = createHeadersAttribute(unitInput.headers, unitInput.maxSize)
    /\ UNCHANGED <<unitFn, unitInput>>

\* HeadersUtil.extractTrackingIds(headers)
ApplyExtractTrackingIds ==
    /\ unitFn = "extractTrackingIds"
    /\ unitApplied = 0
    /\ unitApplied' = 1
    /\ unitOutput' = extractTrackingIds(unitInput.headers, unitInput.uuids)
    /\ UNCHANGED <<unitFn, unitInput>>

\* HeadersUtil.validateHeaders(headers)
ApplyValidateHeaders ==
    /\ unitFn = "validateHeaders"
    /\ unitApplied = 0
    /\ unitApplied' = 1
    /\ unitOutput' = validateHeaders(unitInput)
    /\ UNCHANGED <<unitFn, unitInput>>

\* the same request given to the modular and to the monolithic handler
ApplyHandlers ==
    /\ unitFn = "handler"
    /\ unitApplied = 0
    /\ unitApplied' = 1
    /\ unitOutput' = [ modular |-> handlerOutcome("modular", unitInput),
                       monolithic |-> handlerOutcome("monolithic", unitInput) ]
    /\ UNCHANGED <<unitFn, unitInput>>

\* processWebhook(event, context), the data it passes on
ApplyProcessWebhook ==
    /\ unitFn = "processWebhook"
    /\ unitApplied = 0
    /\ unitApplied' = 1
    /\ unitOutput' = processWebhookData(unitInput.event, unitInput.timestamp,
                                        unitInput.uuids)
    /\ UNCHANGED <<unitFn, unitInput>>

\* generateCollectionName(path); the second application is to its own result
ApplyGenerateCollectionName ==
    /\ unitFn = "generateCollectionName"
    /\ unitApplied < 2
    /\ unitApplied' = unitApplied + 1
    /\ unitOutput' = IF unitApplied = 0 THEN generateCollectionName(unitInput)
                                        ELSE generateCollectionName(unitOutput)
    /\ UNCHANGED <<unitFn, unitInput>>

InitUnit ==
    /\ impl = "modular"
    /\ envMongoParam = TRUE
    /\ envSnsTopic = TRUE
    /\ WebhookIdle
    /\ envDlqUrl = TRUE
    /\ envCriticalTopic = TRUE
    /\ DLQIdle
    /\ RaceIdle
    /\ ConfigIdle
    /\ RedeliveryIdle
    /\ CacheIdle
    /\ unitApplied = 0
    /\ unitOutput = <<>>
    /\ \/ unitFn = "extractEventData" /\ unitInput \in EventInputs
       \/ unitFn = "generateCollectionName" /\ unitInput \in RequestPaths
       \/ unitFn = "sanitizeHeaders" /\ unitInput \in SanitizeInputs
       \/ unitFn = "createHeadersAttribute" /\ unitInput \in AttributeInputs
       \/ unitFn = "extractTrackingIds" /\ unitInput \in TrackingInputs
       \/ unitFn = "processWebhook" /\ unitInput \in PipelineInputs
       \/ unitFn = "validateHeaders" /\ unitInput \in ValidateInputs
       \/ unitFn = "handler" /\ unitInput \in HandlerInputs

NextUnit ==
    \/ ApplyExtractEventData
           /\ UNCHANGED <<webhookVars, dlqVars, raceVars, configVars, redeliveryVars, cacheVars>>
    \/ ApplyGenerateCollectionName
           /\ UNCHANGED <<webhookVars, dlqVars, raceVars, configVars, redeliveryVars, cacheVars>>
    \/ ApplySanitizeHeaders
           /\ UNCHANGED <<webhookVars, dlqVars, raceVars, configVars, redeliveryVars, cacheVars>>
    \/ ApplyCreateHeadersAttribute
           /\ UNCHANGED <<webhookVars, dlqVars, raceVars, configVars, redeliveryVars, cacheVars>>
    \/ ApplyExtractTrackingIds
           /\ UNCHANGED <<webhookVars, dlqVars, raceVars, configVars, redeliveryVars, cacheVars>>
    \/ ApplyProcessWebhook
           /\ UNCHANGED <<webhookVars, dlqVars, raceVars, configVars, redeliveryVars, cacheVars>>
    \/ ApplyValidateHeaders
           /\ UNCHANGED <<webhookVars, dlqVars, raceVars, configVars, redeliveryVars, cacheVars>>
    \/ ApplyHandlers
           /\ UNCHANGED <<webhookVars, dlqVars, raceVars, configVars, redeliveryVars, cacheVars>>

SpecUnit == InitUnit /\ [][NextUnit]_vars

-----------------------------------------------------------------------------
(* Claims about the ingestion handler, checked under Spec *)

\* the request passed the method allow-list and the connection secret is resolved
Accepted == validateMethod(req.method) /\ mongoUri # Null

\* C1: an accepted request (method in the allow-list, secret resolved) is
\* answered with statusCode 200 whatever the two branches' outcomes are.
C1_Accepted200 ==
    (pc = "done" /\ Accepted) => response.statusCode = 200

\* C1 witness: both branches failed and the handler has answered 200
C1_Witness ==
    /\ pc = "done"
    /\ Accepted
    /\ storeState = "failed"
    /\ snsState = "failed"
    /\ response.statusCode = 200

\* C2: the 200 response classifies (store outcome, publish outcome) into one of
\* four states: operations_status.mongodb is "success" iff the store branch
\* succeeded, operations_status.sns is "success" iff the publish branch
\* succeeded, and the message is one of four pairwise distinct texts, each
\* standing for exactly one pair.
C2_FourStates ==
    /\ Cardinality({MsgBoth, MsgStoreOnly, MsgPublishOnly, MsgNone}) = 4
    /\ (pc = "done" /\ response.statusCode = 200) =>
          LET st == response.operations_status
          IN  /\ st.mongodb \in {"success", "failed"}
              /\ st.sns \in {"success", "failed"}
              /\ st.mongodb = "success" <=> storeState = "success"
              /\ snsState # "none" => (st.sns = "success" <=> snsState = "success")
              /\ response.message = MsgBoth
                    <=> (st.mongodb = "success" /\ st.sns = "success")
              /\ response.message = MsgStoreOnly
                    <=> (st.mongodb = "success" /\ st.sns = "failed")
              /\ response.message = MsgPublishOnly
                    <=> (st.mongodb = "failed" /\ st.sns = "success")
              /\ response.message = MsgNone
                    <=> (st.mongodb = "failed" /\ st.sns = "failed")

\* C2 witness: the store failed, the publish succeeded, and the response says so
C2_Witness ==
    /\ pc = "done"
    /\ storeState = "failed"
    /\ snsState = "success"
    /\ response.message = MsgPublishOnly

\* C3: settle-all.  While the handler awaits, both operations have been
\* launched (the publish whenever a topic is configured); a branch that has
\* failed leaves the other one running or settled; and the 200 response exists
\* only once every launched branch has settled.
C3_SettleAll ==
    /\ pc = "awaitAll" =>
          /\ storeState # "none"
          /\ envSnsTopic => snsState # "none"
    /\ (pc = "done" /\ response.statusCode = 200) =>
          /\ Settled(storeState)
          /\ envSnsTopic => Settled(snsState)
          /\ ~envSnsTopic => snsState = "none"

\* C3 witness: the publish has failed while the store write is still running,
\* and the handler is still awaiting
C3_Witness ==
    /\ pc = "awaitAll"
    /\ snsState = "failed"
    /\ storeState = "running"

\* C4 (as claimed, modular handler): a request proceeds past the gate iff its
\* method is POST, PUT, PATCH or DELETE; any other method is answered 405 with
\* the fixed Allow header and allowed_methods list, with no event normalized,
\* no secret fetched and no store write or publish issued.
C4_MethodGate ==
    impl = "modular" =>
       /\ pc \in {"processWebhook", "awaitSecret", "dispatch", "awaitAll"}
             => validateMethod(req.method)
       /\ (pc = "done" /\ validateMethod(req.method))
             => response.statusCode \in {200, 500}
       /\ (pc = "done" /\ ~validateMethod(req.method)) =>
             /\ response.statusCode = 405
             /\ response.Allow = AllowHeader
             /\ response.allowed_methods = AllowedMethods
             /\ ~normalized
             /\ secretFetches = 0
             /\ storeState = "none"
             /\ snsSends = 0

\* C5 (as claimed): every invocation ends with a response whose statusCode is
\* 200, 405 or 500; no exception escapes the handler.
C5_AlwaysResponds ==
    pc = "done" => response.statusCode \in {200, 405, 500}

\* C18: with no fan-out topic configured no publish is issued, the fan-out
\* counts as successful (operations_status.sns = "success"), the message is
\* decided by the store outcome alone and the status is 200.
C18_UnconfiguredFanout ==
    ~envSnsTopic =>
       /\ snsSends = 0
       /\ snsState = "none"
       /\ (pc = "done" /\ Accepted) =>
             /\ response.statusCode = 200
             /\ response.operations_status.sns = "success"
             /\ storeState = "success" => response.message = MsgBoth
             /\ storeState # "success" => response.message = MsgPublishOnly

\* C18 witness: the modular handler, with no topic configured, has answered
\* 200 with sns "success" without sending a publish
C18_Witness ==
    /\ impl = "modular"
    /\ ~envSnsTopic
    /\ pc = "done"
    /\ response.statusCode = 200
    /\ response.operations_status.sns = "success"
    /\ response.message = MsgBoth
    /\ snsSends = 0

\* C19 (as claimed, modular handler): the connection secret is fetched on
\* first use, reused by later requests, and never used for longer than the
\* cache time-to-live: the value the dispatcher uses is the cached one and was
\* fetched at most CacheTTL minutes ago.
C19_SecretTTL ==
    impl = "modular" =>
       /\ (requestsDone = 0 /\ pc \in {"idle", "handler", "processWebhook"})
             => (mongoUri = Null /\ secretFetches = 0)
       /\ (pc = "dispatch" /\ secretFetches = 0) => mongoUri = ssmCache.value
       /\ pc = "dispatch" =>
             /\ ssmCache # NoCache
             /\ now - ssmCache.timestamp <= CacheTTL

-----------------------------------------------------------------------------
(* Claims about the dead-letter handler, checked under SpecDLQ *)

\* processDLQMessage is running for the current record
Processing == dpc \in {"metrics", "retry", "notify"}

\* the retry / notification decision has been taken for the current record
Decided ==
    \/ dpc \in {"retry", "notify", "delete"}
    \/ dpc = "iterEnd" /\ rec.bodyKind = "event"

HasResult(entry, status) ==
    \E i \in 1..Len(results) : results[i] = [entry |-> entry, status |-> status]

\* C6: a delete is issued for an entry only after processDLQMessage for that
\* entry has completed without throwing; no delete is ever issued for an entry
\* whose processing threw.
C6_DeleteAfterProcessing ==
    /\ deleteIssued \cap threw = {}
    /\ \A i \in deleteIssued : i \in attempted /\ HasResult(i, "processed")
    /\ Processing => idx \notin deleteIssued

\* C6 witness: in one batch, one entry's processing threw and another entry's
\* delete was issued
C6_Witness ==
    /\ dpc = "returned"
    /\ threw # {}
    /\ deleteIssued # {}

\* C7: an exception while processing an entry does not abort the batch:
\* processing is attempted for every entry in turn and the handler returns
\* normally.
C7_BatchIndependence ==
    /\ dpc \in {"loop", "metrics", "retry", "notify", "delete", "iterEnd"}
          => attempted = 1..idx
    /\ dpc = "returned" =>
          /\ attempted = 1..batchSize
          /\ dlqResponse.statusCode = 200

\* C7 witness: the first entry's processing threw and the second entry was
\* processed before the handler returned
C7_Witness ==
    /\ dpc = "returned"
    /\ 1 \in threw
    /\ HasResult(2, "processed")

\* C8 (as claimed): the output holds exactly one result per entry:
\* summary.total = N, processed + failed = total, and no entry is counted both
\* as processed and as failed.
C8_OneResultPerEntry ==
    dpc = "returned" =>
       /\ dlqResponse.summary.total = batchSize
       /\ dlqResponse.summary.processed + dlqResponse.summary.failed
             = dlqResponse.summary.total
       /\ \A i \in 1..batchSize :
             ~(HasResult(i, "processed") /\ HasResult(i, "failed"))

\* C9 (as claimed): the retry branch is taken iff analysis.shouldRetry and
\* receiveCount < 3; whenever it is taken the event is republished exactly
\* once, to the entry's original topic, tagged with receiveCount and the prior
\* failure reason; no entry that took the branch is deleted without having
\* been republished.
C9_Redelivery ==
    Decided =>
       /\ retryBranch <=> (analysis.shouldRetry /\ rec.receiveCount < 3)
       /\ retryBranch =>
             /\ Len(republished) = 1
             /\ republished[1].TopicArn = rec.topicArn
             /\ rec.topicArn # Null
             /\ republished[1].RetryAttempt = rec.receiveCount
             /\ republished[1].retry.attempt = rec.receiveCount
             /\ republished[1].retry.originalFailure = FailureInfo(rec).failureReason
       /\ (retryBranch /\ idx \in deleteIssued) => Len(republished) = 1
       /\ ~retryBranch => republished = <<>>

\* C10 (as claimed): an entry whose failure reason is "Timeout", sent less
\* than 24 hours ago, gets shouldRetry = true; with receiveCount 1 redelivery
\* is attempted, with receiveCount 3 it is not.
C10_TimeoutRetry ==
    (Decided /\ rec.reason = ReasonTimeout /\ rec.sentTimestamp = NowMs - MsPerHour) =>
       /\ analysis.shouldRetry
       /\ rec.receiveCount = 1 => retryBranch
       /\ rec.receiveCount = 3 => (~retryBranch /\ republished = <<>>)

\* analyzeFailure has run for the current record
Analyzed ==
    /\ rec.bodyKind = "event"
    /\ dpc \in {"metrics", "retry", "notify", "delete", "iterEnd"}

TooOldText == "Message too old for retry"

\* C11: the failure type is the first match of: reason contains "timeout"
\* (timeout), contains "5" (server_error), contains "4" (client_error), else
\* unknown; for an entry the age gate leaves alone, shouldRetry is true iff the
\* type is timeout or server_error; a reason with both "5" and "4" (and no
\* "timeout", which would match first) is server_error.
C11_Classification ==
    Analyzed =>
       LET r == FailureInfo(rec).failureReason
       IN  /\ Includes(r, StrTimeout) => analysis.failureType = "timeout"
           /\ (~Includes(r, StrTimeout) /\ Includes(r, StrFive))
                 => analysis.failureType = "server_error"
           /\ (~Includes(r, StrTimeout) /\ ~Includes(r, StrFive) /\ Includes(r, StrFour))
                 => analysis.failureType = "client_error"
           /\ (~Includes(r, StrTimeout) /\ ~Includes(r, StrFive) /\ ~Includes(r, StrFour))
                 => analysis.failureType = "unknown"
           /\ (rec.sentTimestamp = NowMs - MsPerHour \/ rec.sentTimestamp = NoTimestamp)
                 => (analysis.shouldRetry
                        <=> analysis.failureType \in {"timeout", "server_error"})

\* C11 witness: a reason with both "5" and "4" was classified server_error
\* and is to be retried
C11_Witness ==
    /\ Analyzed
    /\ rec.reason = Reason504
    /\ rec.sentTimestamp = NowMs - MsPerHour
    /\ analysis.failureType = "server_error"
    /\ analysis.shouldRetry

\* C12: age gate.  An entry sent more than 24 hours ago gets shouldRetry =
\* false and the recommendation "Message too old for retry", whatever its
\* failure type; an entry of at most 24 hours keeps the type-based decision
\* and gets no such recommendation.
C12_AgeGate ==
    (Analyzed /\ rec.sentTimestamp # NoTimestamp) =>
       LET ageMs == NowMs - rec.sentTimestamp
           typeBased == analysis.failureType \in {"timeout", "server_error"}
       IN  /\ ageMs > 24 * 60 * 60 * 1000 =>
                 /\ ~analysis.shouldRetry
                 /\ TooOldText \in SeqToSet(analysis.recommendations)
           /\ ageMs <= 24 * 60 * 60 * 1000 =>
                 /\ analysis.shouldRetry = typeBased
                 /\ TooOldText \notin SeqToSet(analysis.recommendations)

\* C12 witness: a timeout-classified entry one millisecond older than 24 hours
\* is not to be retried
C12_Witness ==
    /\ Analyzed
    /\ rec.reason = ReasonLowerTimeout
    /\ NowMs - rec.sentTimestamp = 24 * 60 * 60 * 1000 + 1
    /\ analysis.failureType = "timeout"
    /\ ~analysis.shouldRetry

\* C13: the escalation notification is sent iff redelivery is not attempted
\* (shouldRetry false or receiveCount >= 3), the entry is critical and
\* CRITICAL_FAILURE_TOPIC_ARN is set; it is sent at most once; redelivery and
\* escalation never both happen for one entry; the notification carries the
\* failure detail, the event's path, method and timestamp, and the analysis.
C13_Escalation ==
    Decided =>
       /\ notified # <<>>
             <=> /\ ~analysis.shouldRetry \/ rec.receiveCount >= 3
                 /\ analysis.isCritical
                 /\ envCriticalTopic
       /\ Len(notified) <= 1
       /\ ~(notified # <<>> /\ (retryBranch \/ republished # <<>>))
       /\ notified # <<>> =>
             /\ notified[1].failure.reason = FailureInfo(rec).failureReason
             /\ notified[1].failure.receiveCount = rec.receiveCount
             /\ notified[1].webhookEvent.path = rec.path
             /\ notified[1].webhookEvent.method # Null
             /\ notified[1].webhookEvent.timestamp # Null
             /\ notified[1].analysis = analysis

\* C13 witness: a critical entry whose retry is ruled out by its receive count
\* alone has been escalated
C13_Witness ==
    /\ dpc = "notify"
    /\ analysis.shouldRetry
    /\ rec.receiveCount = 3
    /\ Len(notified) = 1
    /\ republished = <<>>

\* C14 (as claimed): a failed publish of the escalation notification is
\* swallowed: every entry for which the notification was sent is archived,
\* reported as processed and deleted, whatever the publish's outcome.
C14_NotificationSwallowed ==
    (dpc \in {"delete", "iterEnd"} /\ notified # <<>>) =>
       /\ archived
       /\ HasResult(idx, "processed")
       /\ idx \notin threw
       /\ envDlqUrl => idx \in deleteIssued

\* C15: a failed PutMetricData is swallowed by sendMetrics: the retry /
\* escalation decision is the one taken when the emission succeeds, nothing
\* is thrown on its account, and an entry whose own publish (if any) did not
\* fail is archived, reported as processed and deleted.
C15_MetricsSwallowed ==
    metricsOutcome = "failed" =>
       /\ Decided =>
             /\ retryBranch <=> (analysis.shouldRetry /\ rec.receiveCount < 3)
             /\ notified # <<>>
                   <=> (~retryBranch /\ analysis.isCritical /\ envCriticalTopic)
       /\ idx \in threw => (republished # <<>> \/ notified # <<>>)
       /\ (dpc \in {"delete", "iterEnd"} /\ idx \notin threw) =>
             /\ archived
             /\ HasResult(idx, "processed")
             /\ envDlqUrl => idx \in deleteIssued

\* C15 witness: the metrics emission failed and the entry was archived,
\* reported as processed and its delete issued
C15_Witness ==
    /\ metricsOutcome = "failed"
    /\ dpc = "delete"
    /\ archived
    /\ HasResult(idx, "processed")
    /\ idx \in deleteIssued

\* C16 (as claimed): for every analyzed entry, whatever branch is taken and
\* however it ends: one PutMetricData carries exactly one ProcessedMessages
\* metric with the protocol and failure type, a CriticalFailures metric iff the
\* entry is critical, and once processDLQMessage is over the failure record
\* has been archived.
C16_MetricsAndArchive ==
    Analyzed =>
       /\ Len(metricsSent) = 1
       /\ Cardinality({i \in 1..Len(metricsSent[1]) :
                          metricsSent[1][i].MetricName = "ProcessedMessages"}) = 1
       /\ metricsSent[1][1].Dimensions.FailureType = analysis.failureType
       /\ metricsSent[1][1].Dimensions.Protocol
             = (IF rec.protocol = Null THEN "unknown" ELSE rec.protocol)
       /\ (\E i \in 1..Len(metricsSent[1]) :
               metricsSent[1][i].MetricName = "CriticalFailures")
             <=> analysis.isCritical
       /\ dpc \in {"delete", "iterEnd"} => archived

\* C17: isCritical is true iff the path of the event handed to analyzeFailure
\* contains "/payment", "/security" or "/critical", whatever the failure
\* reason, the receive count and the age are; "/payment/charge" is critical,
\* "/generatives" is not.
C17_IsCritical ==
    Analyzed =>
       LET path == EventPath(rec)
       IN  /\ analysis.isCritical
                 <=> \/ Includes(path, StrPayment)
                     \/ Includes(path, StrSecurity)
                     \/ Includes(path, StrCritical)
           /\ path = PathPaymentCharge => analysis.isCritical
           /\ path = PathGeneratives => ~analysis.isCritical

\* C17 witness: an entry for "/payment/charge" that is too old, has a client
\* error and was received three times is critical
C17_Witness ==
    /\ Analyzed
    /\ EventPath(rec) = PathPaymentCharge
    /\ rec.reason = Reason404
    /\ rec.receiveCount = 3
    /\ NowMs - rec.sentTimestamp = 24 * 60 * 60 * 1000 + 1
    /\ analysis.isCritical

\* C36: across the two pipelines, an Event ingested on a path containing
\* "/payment", "/security" or "/critical" and published with the fan-out
\* message body (the path nested under transport) is classified
\* isCritical = true by analyzeFailure when its dead-letter entry is processed
C36_PublishedEventCritical ==
    (Analyzed /\ rec.shape = "nested" /\ IsCriticalPath(rec.path)) =>
        analysis.isCritical

-----------------------------------------------------------------------------
(* Claims about redelivery, checked under SpecRedelivery *)

\* C37: redelivery is bounded: the Failure Analyzer republishes one original
\* event at most twice, also when every republished copy fails again and
\* comes back as a new entry with a fresh receive count and a fresh sent
\* timestamp
C37_RedeliveryBounded == redeliveries <= 2

-----------------------------------------------------------------------------
(* Claims about the SSMService cache, checked under SpecCache *)

\* the entry the call found under its key, and its age when the call began
EntryBefore == call.before[call.key]

AgeBefore == call.startedAt - EntryBefore.timestamp

\* a getParameter call left every entry under another key as it was
OtherKeysUntouched ==
    call.state # "none" => \A k \in CacheKeys \ {call.key} : cache[k] = call.before[k]

\* getCacheStats reported totalEntries = validEntries + expiredEntries
StatsAddUp == stats.totalEntries = stats.validEntries + stats.expiredEntries

\* C38 as stated: every call for a key whose entry is younger than the TTL
\* returns the cached value without calling the secret service; every call
\* whose entry is at or beyond the TTL evicts it, fetches, and stores the new
\* value with a new timestamp; entries under other keys are not affected;
\* getCacheStats reports totalEntries = validEntries + expiredEntries
C38_CacheContract ==
    /\ (call.state # "none" /\ EntryBefore # NoCache /\ AgeBefore < CacheTTL) =>
           /\ call.state = "returned"
           /\ call.value = EntryBefore.value
           /\ call.sends = 0
    /\ (call.state # "none" /\ EntryBefore # NoCache /\ AgeBefore >= CacheTTL) =>
           /\ call.sends = 1
           /\ call.state = "awaiting" => cache[call.key] = NoCache
           /\ call.state = "returned" =>
                  cache[call.key] = [value |-> call.value, timestamp |-> call.settledAt]
    /\ OtherKeysUntouched
    /\ StatsAddUp

\* C38, amended: the same for every call made with useCache true (the
\* default); the other keys and the statistics as stated
C38_CacheContractAmended ==
    /\ (call.state # "none" /\ call.useCache /\ EntryBefore # NoCache
            /\ AgeBefore < CacheTTL) =>
           /\ call.state = "returned"
           /\ call.value = EntryBefore.value
           /\ call.sends = 0
    /\ (call.state # "none" /\ call.useCache /\ EntryBefore # NoCache
            /\ AgeBefore >= CacheTTL) =>
           /\ call.sends = 1
           /\ call.state = "awaiting" => cache[call.key] = NoCache
           /\ call.state = "returned" =>
                  cache[call.key] = [value |-> call.value, timestamp |-> call.settledAt]
    /\ OtherKeysUntouched
    /\ StatsAddUp

\* a call found an entry exactly cacheTTL old, fetched, and the cache now
\* holds the new value with the time of the answer
C38_Witness ==
    /\ call.state = "returned"
    /\ call.useCache
    /\ EntryBefore # NoCache
    /\ AgeBefore = CacheTTL
    /\ call.sends = 1
    /\ cache[call.key].value # EntryBefore.value
    /\ cache[call.key].timestamp = call.settledAt
    /\ call.settledAt > call.startedAt

-----------------------------------------------------------------------------
(* Claims about overlapping invocations, checked under SpecRace *)

\* every overlapping invocation has got past the secret or has failed
AllRacersFinished ==
    /\ continuations = <<>>
    /\ \A r \in 1..NumRacers : racers[r].pc \in {"done", "failed"}

\* <<mongoUri, cached value>> after invocations that ran one after another:
\* nothing, when every fetch failed, or the one value the first successful
\* fetch returned
SequentialEnds == {<<Null, Null>>} \cup {<<v, v>> : v \in SecretValues}

\* C20: first-use races converge.  Whatever the interleaving, services is
\* constructed once; once every invocation has finished, the parameter's
\* cache entry and mongoUri hold one and the same value, as after a sequential
\* run, and every invocation that went on used a value the parameter store
\* returned.
C20_RaceConverges ==
    /\ servicesCreated <= 1
    /\ AllRacersFinished =>
          /\ services = "set"
          /\ servicesCreated = 1
          /\ <<mongoUri, ssmCache.value>> \in SequentialEnds
          /\ \A r \in 1..NumRacers :
                racers[r].pc = "done" =>
                   /\ racers[r].used \in returned
                   /\ mongoUri # Null

\* C20 witness: two invocations both fetched while the cache was empty, got
\* different values, and the end state holds the later one in both places
C20_Witness ==
    /\ AllRacersFinished
    /\ racers[1].pc = "done"
    /\ racers[2].pc = "done"
    /\ racers[1].got # Null
    /\ racers[2].got # Null
    /\ racers[1].used # racers[2].used
    /\ mongoUri = ssmCache.value
-----------------------------------------------------------------------------
(* Claims about the configuration singleton, checked under SpecConfig *)

\* C21: a getConfig call that has to construct the Config while
\* MONGODB_URI_PARAMETER is unset throws "Missing required configuration"
\* naming exactly that key and installs no singleton; a call that constructs
\* with the setting supplied (also after an earlier failure) returns a new
\* instance and installs it; a call made while an instance is installed
\* returns that same instance, whatever the environment has become, and
\* leaves it installed
C21_ConfigFailsLoudly ==
    [][ /\ (configCalls' # configCalls /\ configInstance = Null /\ ~envMongoParam) =>
              /\ configResult'.outcome = "threw"
              /\ configResult'.message = "Missing required configuration"
              /\ configResult'.keys = <<"MONGODB_URI_PARAMETER">>
              /\ configInstance' = Null
        /\ (configCalls' # configCalls /\ configInstance = Null /\ envMongoParam) =>
              /\ configResult'.outcome = "returned"
              /\ configInstance' # Null
              /\ configResult'.instance = configSerial'
              /\ configSerial' = configSerial + 1
              /\ configSnapshot'.mongodbUriParameter
        /\ (configCalls' # configCalls /\ configInstance # Null) =>
              /\ configResult'.outcome = "returned"
              /\ configResult'.instance = configSerial
              /\ UNCHANGED <<configInstance, configSerial, configSnapshot>>
        /\ (configInstance # Null /\ configCalls' # configCalls) =>
              configInstance' # Null
      ]_vars

\* a call threw, the setting was supplied afterwards, and the next call
\* returned the first instance ever installed
C21_Witness ==
    /\ configFailures >= 1
    /\ configResult.outcome = "returned"
    /\ configResult.instance = 1
    /\ configInstance # Null
    /\ configCalls >= 3

-----------------------------------------------------------------------------
(* Claims about generateCollectionName, checked under SpecUnit *)

\* generateCollectionName returned for the path drawn
NameReturned == unitFn = "generateCollectionName" /\ unitApplied >= 1

\* path with every character outside [A-Za-z0-9] removed
OnlyAlphanumerics(path) == SelectSeq(path, IsAlphanumeric)

\* C27: for every string path generateCollectionName returns (it is total)
\* a non-empty name made only of characters in [A-Za-z0-9-] that neither
\* starts nor ends with "-"
C27_NameWellFormed ==
    NameReturned =>
        /\ Len(unitOutput) > 0
        /\ \A i \in 1..Len(unitOutput) : IsAlphanumeric(unitOutput[i]) \/ unitOutput[i] = "-"
        /\ unitOutput[1] # "-"
        /\ unitOutput[Len(unitOutput)] # "-"

\* a name was returned for a path with separators at both ends and inside,
\* the inner ones having become "-"
C27_Witness ==
    /\ NameReturned
    /\ unitApplied = 1
    /\ unitInput = PathTelegram
    /\ \E i \in 1..Len(unitOutput) : unitOutput[i] = "-"

\* path is word with nothing but non-alphanumeric characters before and after
SpellsAlone(path, word) ==
    \E i \in 1..Len(path), j \in 1..Len(path) :
        /\ SubSeq(path, i, j) = word
        /\ \A k \in 1..Len(path) : (k < i \/ k > j) => ~IsAlphanumeric(path[k])

\* C28 as stated: generateCollectionName(P) is "root" if and only if P is
\* "" or "/"
C28_RootIff ==
    (NameReturned /\ unitApplied = 1) =>
        (unitOutput = NameRoot <=> unitInput \in {<<>>, StrSlash})

\* C28, amended: generateCollectionName(P) is "root" if and only if P is
\* "", "/", or the word "root" with nothing but non-alphanumeric characters
\* around it ("/root", "root", "/root/")
C28_RootIffAmended ==
    (NameReturned /\ unitApplied = 1) =>
        (unitOutput = NameRoot <=>
            unitInput \in {<<>>, StrSlash} \/ SpellsAlone(unitInput, NameRoot))

\* "root" was returned for "/root"
C28_Witness ==
    /\ NameReturned
    /\ unitApplied = 1
    /\ unitInput = PathRoot
    /\ unitOutput = NameRoot

\* C29 as stated: generateCollectionName(P) is "unknown" if and only if P
\* without its non-alphanumeric characters is the empty string
C29_UnknownIff ==
    (NameReturned /\ unitApplied = 1) =>
        (unitOutput = NameUnknown <=> OnlyAlphanumerics(unitInput) = <<>>)

\* C29, amended: generateCollectionName(P) is "unknown" if and only if
\* either P is neither "" nor "/" and has no alphanumeric character, or P is
\* the word "unknown" with nothing but non-alphanumeric characters around it
C29_UnknownIffAmended ==
    (NameReturned /\ unitApplied = 1) =>
        (unitOutput = NameUnknown <=>
            \/ unitInput \notin {<<>>, StrSlash} /\ OnlyAlphanumerics(unitInput) = <<>>
            \/ SpellsAlone(unitInput, NameUnknown))

\* "unknown" was returned for a path of separators only
C29_Witness ==
    /\ NameReturned
    /\ unitApplied = 1
    /\ unitInput = <<"/", "/">>
    /\ unitOutput = NameUnknown

\* C30: generateCollectionName is idempotent: applied to its own result it
\* returns that result
C30_Idempotent ==
    (unitFn = "generateCollectionName" /\ unitApplied = 2) =>
        unitOutput = generateCollectionName(unitInput)

\* the function was applied to the name it had made of a path with
\* separators at both ends and inside
C30_Witness ==
    /\ unitFn = "generateCollectionName"
    /\ unitApplied = 2
    /\ unitInput = PathTelegram
    /\ unitOutput # unitInput

-----------------------------------------------------------------------------
(* Claims about the header utilities, checked under SpecUnit *)

\* the entries of the header map passed, none when it is not an object
EntriesPassed(headers) == IF headers.type = "object" THEN headers.entries ELSE <<>>

\* C24: sanitizeHeaders(H) drops exactly the entries whose lower-cased key
\* is "headers" and keeps every other entry, key and value unchanged, in
\* place; null and non-object inputs give the empty map
C24_SanitizeExact ==
    (unitFn = "sanitizeHeaders" /\ unitApplied = 1) =>
        unitOutput = SelectSeq(EntriesPassed(unitInput),
                               LAMBDA entry : toLowerCase(entry.key) # StrHeaders)

\* C25: for every maxSize and header map with something left after
\* sanitizing: a serialization of at most maxSize characters is returned
\* verbatim; a longer one is returned as its first maxSize - 20 characters
\* followed by the marker, maxSize - 1 characters in all, never more than
\* maxSize
C25_Truncation ==
    ( /\ unitFn = "createHeadersAttribute"
      /\ unitApplied = 1
      /\ sanitizeHeaders(unitInput.headers) # <<>> ) =>
        LET headersJson == JSONstringify(sanitizeHeaders(unitInput.headers))
            maxSize == unitInput.maxSize
        IN  /\ unitOutput.DataType = "String"
            /\ IF Len(headersJson) <= maxSize
               THEN unitOutput.StringValue = headersJson
               ELSE /\ Len(unitOutput.StringValue) = maxSize - 1
                    /\ Len(unitOutput.StringValue) <= maxSize
                    /\ unitOutput.StringValue =
                           SubSeq(headersJson, 1, maxSize - 20) \o TruncationMarker

\* the values of the entries whose key is headerName ignoring case
ValuesOf(entries, headerName) ==
    {entries[i].value : i \in {j \in 1..Len(entries) :
                                   toLowerCase(entries[j].key) = headerName}}

\* an identifier is the value of the header present under the first
\* spelling, else of the one under the second spelling, else generated
PropagatedOrGenerated(id, entries, first, second, uuids) ==
    IF ValuesOf(entries, first) # {} THEN id \in ValuesOf(entries, first)
    ELSE IF ValuesOf(entries, second) # {} THEN id \in ValuesOf(entries, second)
    ELSE id \in {StringValue(uuids[1]), StringValue(uuids[2])}

\* C26: correlationId is the value of the header "x-correlation-id" when
\* the map has that key in any casing, else of "correlation-id", else a
\* generated identifier; likewise requestId with "x-request-id" and
\* "request-id"; a header that is present is never replaced by a generated
\* identifier
C26_TrackingPropagated ==
    (unitFn = "extractTrackingIds" /\ unitApplied = 1) =>
        /\ PropagatedOrGenerated(unitOutput.correlationId,
                                 EntriesPassed(unitInput.headers),
                                 StrXCorrelationId, StrCorrelationId, unitInput.uuids)
        /\ PropagatedOrGenerated(unitOutput.requestId,
                                 EntriesPassed(unitInput.headers),
                                 StrXRequestId, StrRequestId, unitInput.uuids)

-----------------------------------------------------------------------------
(* Claims about extractEventData, checked under SpecUnit *)

\* extractEventData returned the Event of the request drawn
EventBuilt == unitFn = "extractEventData" /\ unitApplied = 1

\* C22: the Event's type is "application/json" exactly when the request
\* has a non-empty body that is a JSON text, and then the payload is the
\* value parsed from it; otherwise the type is "text/plain" and the payload
\* is the body as received, the empty string when there is no body
C22_TypeIffJson ==
    EventBuilt =>
        LET body == unitInput.event.body
        IN  /\ unitOutput.type = "application/json" <=>
                   (body.present /\ body.text # <<>> /\ body.text \in JsonBodies)
            /\ unitOutput.type = "application/json" =>
                   /\ unitOutput.payload = JSONparse(body.text).value
                   /\ unitOutput.payload.t # "none"
                   /\ body.text = StrNull => unitOutput.payload.t = "null"
                   /\ body.text = <<"1", "2">> =>
                          unitOutput.payload = JsonValue("number", <<"1", "2">>, <<>>)
                   /\ body.text = <<"\"", "h", "i", "\"">> =>
                          unitOutput.payload = JsonString(<<"h", "i">>)
                   /\ body.text = <<"[", "1", ",", "2", "]">> =>
                          /\ unitOutput.payload.t = "array"
                          /\ Len(unitOutput.payload.items) = 2
            /\ unitOutput.type # "application/json" =>
                   /\ unitOutput.type = "text/plain"
                   /\ unitOutput.payload =
                          JsonString(IF body.present THEN body.text ELSE <<>>)

\* an Event was built from a body that is a JSON object of two members
C22_Witness ==
    /\ EventBuilt
    /\ unitOutput.type = "application/json"
    /\ unitOutput.payload.t = "object"
    /\ Len(unitOutput.payload.items) = 2

\* C23: the Event that is stored, and the message body published from it,
\* carry sanitized headers: no key of transport.headers is "headers" in any
\* casing
C23_EventHeadersSanitized ==
    EventBuilt =>
        /\ \A i \in 1..Len(unitOutput.transport.headers) :
               toLowerCase(unitOutput.transport.headers[i].key) # StrHeaders
        /\ LET message == buildMessage(unitOutput, "prod")
           IN  \A i \in 1..Len(message.transport.headers) :
                   toLowerCase(message.transport.headers[i].key) # StrHeaders

-----------------------------------------------------------------------------
(* Claims about the order of the handler's steps, checked under Spec *)

\* a branch of the current request has been launched
BranchLaunched == storeState # "none" \/ snsState # "none" \/ snsSends > 0

\* the current request asked the secret service and got no value
SecretFetchFailed == pc = "done" /\ secretFetches > 0 /\ mongoUri = Null

\* C34: neither the store write nor the publish is launched before the
\* connection secret is resolved, and a request whose secret resolution
\* failed ends in a 500 response with no store write and no publish issued
C34_SecretBeforeDispatch ==
    /\ BranchLaunched => mongoUri # Null
    /\ pc \in {"processWebhook", "awaitSecret"} => ~BranchLaunched
    /\ SecretFetchFailed =>
           /\ response = ErrorResponse("SSM parameter retrieval failed")
           /\ ~BranchLaunched

\* a request whose secret fetch failed has been answered
C34_Witness ==
    /\ SecretFetchFailed
    /\ response.statusCode = 500
    /\ ~BranchLaunched

\* the current request has been answered without having reached processWebhook
AnsweredAtGate == pc = "done" /\ ~normalized

\* C39: a failed secret fetch leaves the cached state unchanged.  The request
\* whose fetch failed is answered 500 "SSM parameter retrieval failed"; as
\* long as the latest fetch is a failed one the SSMService cache holds no
\* entry and the handler's mongoUri is unset; and every later request that
\* reaches processWebhook asks the secret service again: none is answered,
\* or goes on to its branches, without a fetch of its own
C39_FailureNotCached ==
    /\ (fetchFailed /\ pc = "done" /\ secretFetches > 0) =>
           response = ErrorResponse("SSM parameter retrieval failed")
    /\ fetchFailed => (ssmCache = NoCache /\ mongoUri = Null)
    /\ (fetchFailed /\ secretFetches = 0) =>
           \/ pc \in {"idle", "handler", "processWebhook"}
           \/ AnsweredAtGate
    /\ pc = "awaitSecret" => secretFetches = 1

\* after a request whose fetch failed, the next request is waiting for the
\* answer to a fetch of its own
C39_Witness ==
    /\ fetchFailed
    /\ requestsDone >= 1
    /\ pc = "awaitSecret"
    /\ secretFetches = 1
    /\ ssmCache = NoCache
    /\ mongoUri = Null

\* C35: completion-order independence.  For a pair of branch outcomes the
\* response of processWebhook (status code, message, operations_status) is
\* the same whether the store write settled before the publish or after it;
\* the store outcome is never attributed to the publish or vice versa
C35_OrderIndependent ==
    (pc = "done" /\ response.statusCode = 200 /\ Len(settleOrder) = 2) =>
        /\ settleOrder \in {<<"mongodb", "sns">>, <<"sns", "mongodb">>}
        /\ response.operations_status = [mongodb |-> storeState, sns |-> snsState]
        /\ response.message =
               CASE storeState = "success" /\ snsState = "success" -> MsgBoth
                 [] storeState = "success" /\ snsState = "failed" -> MsgStoreOnly
                 [] storeState = "failed" /\ snsState = "success" -> MsgPublishOnly
                 [] storeState = "failed" /\ snsState = "failed" -> MsgNone

\* the publish settled first and succeeded, the store write settled second
\* and failed, and the response attributes each outcome to its own branch
C35_Witness ==
    /\ pc = "done"
    /\ settleOrder = <<"sns", "mongodb">>
    /\ snsState = "success"
    /\ storeState = "failed"
    /\ response.operations_status = [mongodb |-> "failed", sns |-> "success"]

-----------------------------------------------------------------------------
(* Claims about the whole ingestion pipeline, checked under SpecUnit *)

\* the values of the request headers that spell a correlation id
SuppliedCorrelationIds(event) ==
    IF IsFalsy(event.headers) THEN {}
    ELSE ValuesOf(event.headers.entries, StrXCorrelationId)
             \cup ValuesOf(event.headers.entries, StrCorrelationId)

\* C31: for every accepted request the Event's transport.path is the request
\* path, the collection of the store write and of the 200 response is
\* generateCollectionName of that path, and a correlation id supplied in a
\* request header is the value of the publish's x-correlation-id attribute,
\* never a generated one; POST /messages/telegram with X-Correlation-ID
\* test-123 and body {"a":1} gives collection "messages-telegram", a parsed
\* payload, type "application/json" and correlation id "test-123"
C31_EndToEnd ==
    (unitFn = "processWebhook" /\ unitApplied = 1) =>
        LET event == unitInput.event
            out == unitOutput
        IN  /\ event.path.present => out.eventData.transport.path = event.path.text
            /\ out.store.collectionName
                    = generateCollectionName(Coalesce(event.path, StrSlash))
            /\ out.response.collection = out.store.collectionName
            /\ out.response.statusCode = 200
            /\ SuppliedCorrelationIds(event) # {}
                    => out.publish.attributes.xCorrelationId
                           \in SuppliedCorrelationIds(event)
            /\ ( /\ event.path = Present(<<"/", "m", "e", "s", "s", "a", "g", "e", "s", "/", "t", "e", "l", "e", "g", "r", "a", "m">>)
                 /\ event.body = Present(<<"{", "\"", "a", "\"", ":", "1", "}">>)
                 /\ event.headers = HeaderMap(<< [key |-> <<"X", "-", "C", "o", "r", "r", "e", "l", "a", "t", "i", "o", "n", "-", "I", "D">>,
                                                  value |-> StringValue(<<"t", "e", "s", "t", "-", "1", "2", "3">>)] >>) )
                    => /\ out.store.collectionName = <<"m", "e", "s", "s", "a", "g", "e", "s", "-", "t", "e", "l", "e", "g", "r", "a", "m">>
                       /\ out.eventData.payload = JSONparse(<<"{", "\"", "a", "\"", ":", "1", "}">>).value
                       /\ out.eventData.type = "application/json"
                       /\ out.publish.attributes.xCorrelationId
                              = StringValue(<<"t", "e", "s", "t", "-", "1", "2", "3">>)

-----------------------------------------------------------------------------
(* Claims about validateHeaders, checked under SpecUnit *)

\* the issue list has an issue of the kind naming the header
HasIssue(issues, kind, key) ==
    \E i \in 1..Len(issues) : issues[i] = [kind |-> kind, key |-> key]

\* C32: validateHeaders flags every offending header independently of the
\* others: each header whose value is longer than 8192 characters gets a
\* length issue, each header whose key or value contains an HTML tag, the
\* word script or the javascript: scheme gets the issue of that kind naming
\* it, whatever headers precede it in the map; isValid is true iff the issue
\* list is empty
C32_ValidateIndependent ==
    (unitFn = "validateHeaders" /\ unitApplied = 1 /\ TypeofObject(unitInput)) =>
        /\ \A i \in 1..Len(unitInput.entries) :
               LET key == unitInput.entries[i].key
                   headerValue == unitInput.entries[i].value.text
               IN  /\ Len(headerValue) > MaxHeaderValueLength
                          <=> HasIssue(unitOutput.issues, "length", key)
                   /\ (HtmlTagTest(headerValue, 0).matched \/ HtmlTagTest(key, 0).matched)
                          <=> HasIssue(unitOutput.issues, "html", key)
                   /\ (ScriptTest(headerValue) \/ ScriptTest(key))
                          <=> HasIssue(unitOutput.issues, "script", key)
                   /\ (JavascriptTest(headerValue) \/ JavascriptTest(key))
                          <=> HasIssue(unitOutput.issues, "javascript", key)
        /\ unitOutput.isValid <=> unitOutput.issues = <<>>

-----------------------------------------------------------------------------
(* Claims about the two handlers, checked under SpecUnit *)

\* operations_status of a response; the 405 and 500 bodies have none
OperationsStatus(resp) ==
    IF resp.statusCode = 200 THEN resp.operations_status
    ELSE [mongodb |-> "none", sns |-> "none"]

\* message of a response; a thrown exception is no response and has none
ResponseMessage(resp) ==
    IF resp.statusCode = Thrown.statusCode THEN "" ELSE resp.message

\* C33: the modular handler is fully compatible with the monolithic one: for
\* every request (any method, any headers) and every combination of secret,
\* store and publish outcomes both return a response with the same
\* statusCode, the same message and the same operations_status, and issue a
\* publish with the same message attributes
C33_Compatible ==
    (unitFn = "handler" /\ unitApplied = 1) =>
        /\ unitOutput.modular.response.statusCode
               = unitOutput.monolithic.response.statusCode
        /\ ResponseMessage(unitOutput.modular.response)
               = ResponseMessage(unitOutput.monolithic.response)
        /\ OperationsStatus(unitOutput.modular.response)
               = OperationsStatus(unitOutput.monolithic.response)
        /\ unitOutput.modular.publish = unitOutput.monolithic.publish

=============================================================================
